---- MODULE Spec2Model ----
(***************************************************************************)
(* A model of nbexplorer (js/nbexplorer.js): the folder tree built from    *)
(* the loaded files, the folder listing with its lazily read cards, the    *)
(* card registry (cardMap) and the modal viewer with its previous/next     *)
(* navigation.  Every event handler of the program is one action.  The     *)
(* path normalization, the tree builder and the two notebook renderers     *)
(* are operators, applied by the loads and by the completion of a read     *)
(* and the opening of the viewer.                                          *)
(*                                                                         *)
(* Strings the program only splits and joins are sequences of tokens: a    *)
(* token is a separator ("/" or a backslash) or a maximal run of other     *)
(* characters.  A JavaScript object is a record with its own keys in       *)
(* insertion order (keys), their values (kids) and, for an array, its      *)
(* elements (items).                                                       *)
(***************************************************************************)
EXTENDS Integers, Sequences, FiniteSets, TLC

\* ---------------------------------------------------------------- bounds

\* The separators of a path hint are at most MaxRun characters long.
MaxRun == 3

\* Card ids Math.random() can produce are 1..MaxId.
MaxId == 2
\* Reads that may be in flight at once, over all cards.
MaxInFlight == 2
\* The per-session counters of the tracked file saturate here.
MaxCount == 2

\* ---------------------------------------------------------------- constants

BS == "\\"
IPYNB == "ipynb"
PY == "py"

\* ---------------------------------------------------------------- inputs

\* The separators of a path hint: every run of one to MaxRun slashes and
\* backslashes.  SepAt(n) is the n-th of them, the shorter first.
NSeps == 2^(MaxRun + 1) - 2

SepAt(n) ==
  LET l == CHOOSE k \in 1..MaxRun : 2^k - 2 < n /\ n <= 2^(k + 1) - 2
      m == n - 1 - (2^l - 2)
  IN [i \in 1..l |-> IF (m \div 2^(i - 1)) % 2 = 1 THEN BS ELSE "/"]

\* The hints of the file p.ipynb, by shape: in the folder a, nothing but a
\* separator, and in the folder b of a.
NShapes == 3

HintOf(shape, sep) ==
  CASE shape = 0 -> <<"a">> \o sep \o <<"p.ipynb">>
    [] shape = 1 -> sep
    [] shape = 2 -> <<"a">> \o sep \o <<"b">> \o sep \o <<"p.ipynb">>

\* File object k of p.ipynb: the hints of every shape with every separator,
\* first as webkitRelativePath, then as fullPath.
PathFile(k) ==
  LET sep == SepAt(((k - 1) % NSeps) + 1)
      shape == ((k - 1) \div NSeps) % NShapes
      route == (k - 1) \div (NSeps * NShapes)
      hint == HintOf(shape, sep)
  IN [name |-> "p.ipynb",
      webkitRelativePath |-> IF route = 0 THEN hint ELSE <<>>,
      fullPath |-> IF route = 1 THEN hint ELSE <<>>,
      text |-> "ok"]

\* The File objects of the model: name, the two path hints (empty when the
\* browser gives none) and what the text of the file is like: "ok" parses and
\* renders, "badjson" makes JSON.parse throw.
FileIds == 1..6

FileOf(id) ==
  CASE id = 1 -> [name |-> "x.ipynb", webkitRelativePath |-> <<"a", "/", "b", "/", "x.ipynb">>,
                  fullPath |-> <<>>, text |-> "badjson"]
    [] id = 2 -> [name |-> "y.py", webkitRelativePath |-> <<"a", BS, "y.py">>,
                  fullPath |-> <<>>, text |-> "ok"]
    [] id = 3 -> [name |-> "z.py", webkitRelativePath |-> <<>>,
                  fullPath |-> <<"/", "z.py">>, text |-> "ok"]
    [] id = 4 -> [name |-> "n.txt", webkitRelativePath |-> <<"a", "/", "n.txt">>,
                  fullPath |-> <<>>, text |-> "ok"]
    [] id = 5 -> [name |-> "w.ipynb", webkitRelativePath |-> <<"a", BS, BS, "w.ipynb">>,
                  fullPath |-> <<>>, text |-> "ok"]
    [] id = 6 -> [name |-> "v.ipynb", webkitRelativePath |-> <<"a", "/", "files", "/", "v.ipynb">>,
                  fullPath |-> <<>>, text |-> "ok"]
    [] id = 7 -> [name |-> "._m.py", webkitRelativePath |-> <<"a", "/", "._m.py">>,
                  fullPath |-> <<>>, text |-> "ok"]
    [] id = 8 -> [name |-> "u.py", webkitRelativePath |-> <<>>,
                  fullPath |-> <<>>, text |-> "ok"]
    [] id = 9 -> [name |-> "p.ipynb", webkitRelativePath |-> <<"a", "/", "p.ipynb">>,
                  fullPath |-> <<>>, text |-> "ok"]
    [] id = 10 -> [name |-> "p.ipynb", webkitRelativePath |-> <<"a", "/", "p.ipynb">>,
                   fullPath |-> <<"t", "/", "p.ipynb">>, text |-> "ok"]
    [] id = -1 -> [name |-> "q.ipynb", webkitRelativePath |-> <<"a", "/", "q.ipynb">>,
                   fullPath |-> <<>>, text |-> "badjson"]
    [] OTHER -> PathFile(id - 10)

\* Files that only the loads of the tree specifications deliver: a metadata
\* file, a file without any hint, a file with the picker's hint and one with
\* both hints.
ExtraFileIds == 7..10

\* And the File objects of p.ipynb with one hint.
PathFileIds == 11..(10 + 2 * NShapes * NSeps)

\* A notebook of folder a whose text does not parse.
BrokenFileIds == {-1}

AllFileIds == FileIds \cup ExtraFileIds \cup PathFileIds \cup BrokenFileIds

\* The File objects as the browser hands them over.
Files == [id \in AllFileIds |-> FileOf(id)]

\* The file lists a load can deliver: a folder with two supported files and
\* one that is filtered out, and a notebook two folders deep.
LoadInputs == { <<2, 4, 5>>, <<1>> }

\* The same, and a folder without any supported file.
ListingInputs == LoadInputs \cup { <<4>> }

EndsWith(name, suffix) ==
  CASE suffix = ".ipynb" -> name \in {"x.ipynb", "w.ipynb", "v.ipynb", "p.ipynb", "q.ipynb"}
    [] suffix = ".py"    -> name \in {"y.py", "z.py", "._m.py", "u.py"}
    [] OTHER             -> FALSE

StartsWith(name, prefix) ==
  CASE prefix = "._" -> name \in {"._m.py", "._d"}
    [] OTHER         -> FALSE

SUPPORTED_EXTENSIONS == <<".ipynb", ".py">>

\* ---------------------------------------------------------------- objects

NoKids == [k \in {} |-> 0]
EmptyObj == [kind |-> "obj", keys |-> <<>>, kids |-> NoKids, items |-> <<>>]
EmptyArr == [kind |-> "arr", keys |-> <<>>, kids |-> NoKids, items |-> <<>>]
\* The result of an evaluation that threw.
Threw == [kind |-> "throw", keys |-> <<>>, kids |-> NoKids, items |-> <<>>]

Has(node, k) == k \in DOMAIN node.kids
Get(node, k) == node.kids[k]
Put(node, k, v) ==
  [node EXCEPT !.kids = (k :> v) @@ node.kids,
               !.keys = IF k \in DOMAIN node.kids THEN @ ELSE Append(@, k)]

\* ---------------------------------------------------------------- paths

RECURSIVE DropBackslashes(_)
DropBackslashes(s) ==
  IF s # <<>> /\ Head(s) = BS THEN DropBackslashes(Tail(s)) ELSE s

\* path.replace(/\\\\+/g, '/'): a run of two or more backslashes becomes one slash
RECURSIVE ReplaceRuns(_)
ReplaceRuns(s) ==
  IF s = <<>> THEN <<>>
  ELSE IF Len(s) >= 2 /\ s[1] = BS /\ s[2] = BS
       THEN <<"/">> \o ReplaceRuns(DropBackslashes(s))
       ELSE <<Head(s)>> \o ReplaceRuns(Tail(s))

\* The second replace without its g flag: the first backslash left becomes
\* a slash, the others stay.
ReplaceSingles_firstOnly(s) ==
  [i \in 1..Len(s) |-> IF s[i] = BS /\ \A j \in 1..(i - 1) : s[j] # BS THEN "/" ELSE s[i]]

\* The second replace left out: only the runs of two or more are replaced.
ReplaceSingles_missing(s) == s

\* .replace(/\\/g, '/'): every backslash left becomes a slash
ReplaceSingles(s) == [i \in 1..Len(s) |-> IF s[i] = BS THEN "/" ELSE s[i]]

\* normalizeFilePath with file.fullPath || file.webkitRelativePath || ''.
normalizeFilePath_fullPathFirst(file) ==
  LET path == IF file.fullPath # <<>> THEN file.fullPath
              ELSE file.webkitRelativePath
  IN IF path = <<>> THEN <<file.name>>
     ELSE ReplaceSingles(ReplaceRuns(path))

normalizeFilePath(file) ==
  LET path == IF file.webkitRelativePath # <<>> THEN file.webkitRelativePath
              ELSE file.fullPath
  IN IF path = <<>> THEN <<file.name>>
     ELSE ReplaceSingles(ReplaceRuns(path))

\* normalized.split('/'): the strings between the slashes, the empty ones
\* among them; a backslash left in the path is a character like any other.
RECURSIVE split(_)
split(s) ==
  IF s = <<>> THEN <<"">>
  ELSE LET rest == split(Tail(s))
       IN IF Head(s) = "/" THEN <<"">> \o rest
          ELSE <<Head(s) \o Head(rest)>> \o Tail(rest)

\* normalized.split('/') without the filter.
SplitParts_noFilter(normalized) == split(normalized)

\* normalized.split('/').filter(Boolean)
SplitParts(normalized) == SelectSeq(split(normalized), LAMBDA t : t # "")

\* ---------------------------------------------------------------- tree

\* buildTree with node.files.unshift(f) for node.files.push(f).
RECURSIVE InsertFile_unshift(_, _, _)
InsertFile_unshift(node, parts, f) ==
  IF node.kind = "throw" THEN Threw
  ELSE IF parts = <<>> THEN node
  ELSE IF Len(parts) = 1
       THEN LET n1 == IF Has(node, "files") THEN node ELSE Put(node, "files", EmptyArr)
                arr == Get(n1, "files")
            IN IF arr.kind = "arr"
               THEN Put(n1, "files", [arr EXCEPT !.items = <<f>> \o @])
               ELSE Threw
       ELSE LET part == Head(parts)
                child == IF Has(node, part) THEN Get(node, part) ELSE EmptyObj
                sub == InsertFile_unshift(child, Tail(parts), f)
            IN IF sub.kind = "throw" THEN Threw ELSE Put(node, part, sub)

\* The inner loop of buildTree for one file, from node on, with parts left.
RECURSIVE InsertFile(_, _, _)
InsertFile(node, parts, f) ==
  IF node.kind = "throw" THEN Threw
  ELSE IF parts = <<>> THEN node
  ELSE IF Len(parts) = 1
       THEN LET n1 == IF Has(node, "files") THEN node ELSE Put(node, "files", EmptyArr)
                arr == Get(n1, "files")
            IN IF arr.kind = "arr"
               THEN Put(n1, "files", [arr EXCEPT !.items = Append(@, f)])
               ELSE Threw
       ELSE LET part == Head(parts)
                child == IF Has(node, part) THEN Get(node, part) ELSE EmptyObj
                sub == InsertFile(child, Tail(parts), f)
            IN IF sub.kind = "throw" THEN Threw ELSE Put(node, part, sub)

\* f.fullPath = normalized: the File object as buildTree leaves it.
normalizedFile(file) == [file EXCEPT !.fullPath = normalizeFilePath(file)]

\* The outer loop of buildTree over the files left, fileAt giving the File
\* object of each.
RECURSIVE BuildOver(_, _, _)
BuildOver(fileAt, tree, files) ==
  IF files = <<>> THEN tree
  ELSE BuildOver(fileAt,
                 InsertFile(tree, SplitParts(normalizeFilePath(fileAt[Head(files)])),
                            Head(files)),
                 Tail(files))

BuildFrom(tree, files) == BuildOver(Files, tree, files)

buildTree(files) == BuildFrom(EmptyObj, files)

\* The filter of initGallery without the test of the ._ prefix.
IsSupported_withMetadata(id) ==
  \E i \in 1..Len(SUPPORTED_EXTENSIONS) : EndsWith(FileOf(id).name, SUPPORTED_EXTENSIONS[i])

IsSupported(id) ==
  /\ \E i \in 1..Len(SUPPORTED_EXTENSIONS) : EndsWith(FileOf(id).name, SUPPORTED_EXTENSIONS[i])
  /\ ~StartsWith(FileOf(id).name, "._")

supportedFiles(files) == SelectSeq(files, IsSupported)

\* ---------------------------------------------------------------- traversal

\* The entries of a drop: a file entry gives a File object, a directory entry
\* its entries.
FileEntry(id) ==
  [isFile |-> TRUE, isDirectory |-> FALSE, name |-> FileOf(id).name, file |-> id,
   entries |-> <<>>]
DirEntry(name, entries) ==
  [isFile |-> FALSE, isDirectory |-> TRUE, name |-> name, file |-> 0, entries |-> entries]
\* An item webkitGetAsEntry gives no entry for.
NoEntry ==
  [isFile |-> FALSE, isDirectory |-> FALSE, name |-> "", file |-> 0, entries |-> <<>>]

\* traverseFileTree(item, fileList, path): acc holds fileList and the File
\* objects, whose fullPath the traversal sets.
RECURSIVE traverseFileTree(_, _, _)
RECURSIVE traverseEntries(_, _, _, _)
traverseFileTree(item, acc, path) ==
  IF item.isFile
  THEN LET f == item.file
           name == acc.fileAt[f].name
           at == [acc.fileAt EXCEPT ![f].fullPath = ReplaceSingles(path) \o <<name>>]
       IN [fileList |-> IF (EndsWith(name, ".ipynb") \/ EndsWith(name, ".py"))
                            /\ ~StartsWith(name, "._")
                        THEN Append(acc.fileList, f) ELSE acc.fileList,
           fileAt |-> at]
  ELSE IF item.isDirectory
  THEN traverseEntries(item, item.entries, acc, path)
  ELSE acc

\* The loop over the entries readEntries gives for the directory item.
traverseEntries(item, entries, acc, path) ==
  IF entries = <<>> THEN acc
  ELSE LET entry == Head(entries)
           newPath == ReplaceSingles(path) \o <<item.name, "/">>
       IN traverseEntries(item, Tail(entries),
                          IF ~StartsWith(entry.name, "._")
                          THEN traverseFileTree(entry, acc, newPath) ELSE acc,
                          path)

\* The drop of a session: the folder a with its three files.
SessionDrops == { << DirEntry("a", <<FileEntry(2), FileEntry(4), FileEntry(5)>>) >> }

\* The drops of the tree specifications: the same; a folder with a metadata
\* file, an unsupported file, a supported file and a metadata folder; a
\* metadata file and an item without entry; a metadata folder dropped itself
\* and a file beside it.
DropInputs ==
  SessionDrops \cup
  { << DirEntry("d", <<FileEntry(7), FileEntry(4), FileEntry(3),
                       DirEntry("._d", <<FileEntry(8)>>)>>) >>,
    << FileEntry(7), NoEntry >>,
    << DirEntry("._d", <<FileEntry(8)>>), FileEntry(3) >> }

\* The loop of the drop handler over the items dropped.
RECURSIVE traverseItems(_, _)
traverseItems(items, acc) ==
  IF items = <<>> THEN acc
  ELSE traverseItems(Tail(items),
                     IF Head(items) # NoEntry
                     THEN traverseFileTree(Head(items), acc, <<>>) ELSE acc)

\* Walks node by path; Threw when a segment is missing (node[p] of undefined).
RECURSIVE Walk(_, _)
Walk(node, path) ==
  IF path = <<>> THEN node
  ELSE IF node.kind # "throw" /\ Has(node, Head(path))
       THEN Walk(Get(node, Head(path)), Tail(path))
       ELSE Threw

\* ---------------------------------------------------------------- state

VARIABLES
  folderStructure,     \* the tree of the last successful load
  currentPath,         \* folder names from the root to the folder shown
  showPyFiles,         \* the show-py toggle
  cardMap,             \* the registry: id -> [filename, raw, type]
  currentCardIndex,    \* the cursor, -1 when there is none
  navigationCardIds,   \* the ids captured when the viewer was opened
  gallery,             \* the cards of the listing, in DOM order
  shown,               \* the node the listing was rendered from
  breadcrumbs,         \* the segments the breadcrumb spans were built from
  listingShown,        \* breadcrumbs and search bar displayed, dropzone hidden
  stale,               \* reads in flight for cards no longer in the listing, per file
  modalOpen,           \* modal.style.display = 'block'
  prevDisabled,        \* prevButton.disabled
  nextDisabled,        \* nextButton.disabled
  notices,             \* what was reported so far: "alert" (alert), "warn" (console.warn),
                       \* "error" (an exception no handler caught)
  viewerTitle,         \* viewerTitle.textContent
  viewerBody,          \* the file whose text viewerBody shows, 0 when empty
  tracked,             \* history: the file whose reads are counted (0: none is)
  readsOf,             \* history: reads started for it in this session
  cardsOf              \* history: cards rendered for it in this session

vars == <<folderStructure, currentPath, showPyFiles, cardMap, currentCardIndex,
          navigationCardIds, gallery, shown, breadcrumbs, listingShown, stale,
          modalOpen, prevDisabled, nextDisabled, notices, viewerTitle, viewerBody,
          tracked, readsOf, cardsOf>>

Ids == 1..MaxId
NoId == 0
NoMap == [i \in {} |-> 0]

Bump(n) == IF n < MaxCount THEN n + 1 ELSE MaxCount

ExtOf(f) == IF EndsWith(FileOf(f).name, ".py") THEN PY ELSE IPYNB

\* ---------------------------------------------------------------- listing

FolderCard(name) ==
  [kind |-> "folder", name |-> name, file |-> 0, ext |-> "", observing |-> FALSE,
   inflight |-> 0, started |-> 0, regs |-> 0, cardId |-> NoId, content |-> "none"]

\* A file card as renderFolderView creates it: header, empty content, and an
\* IntersectionObserver observing it.
FileCard(f) ==
  [kind |-> "file", name |-> FileOf(f).name, file |-> f, ext |-> ExtOf(f),
   observing |-> TRUE, inflight |-> 0, started |-> 0, regs |-> 0, cardId |-> NoId,
   content |-> "empty"]

\* The folder loop without the test for the key 'files'.
FolderNames_withFilesKey(node) ==
  SelectSeq(node.keys, LAMBDA k : ~StartsWith(k, "._"))

FolderNames(node) ==
  SelectSeq(node.keys, LAMBDA k : k # "files" /\ ~StartsWith(k, "._"))

FilesOf(node) ==
  IF node.kind # "throw" /\ Has(node, "files") /\ Get(node, "files").kind = "arr"
  THEN Get(node, "files").items ELSE <<>>

ShownFiles(node, showPy) ==
  SelectSeq(FilesOf(node), LAMBDA f : ~(~showPy /\ ExtOf(f) = PY))

\* The cards renderFolderView(node) appends to the emptied gallery.
CardsOf(node, showPy) ==
  LET names == FolderNames(node)
      files == ShownFiles(node, showPy)
  IN [i \in 1..Len(names) |-> FolderCard(names[i])]
     \o [i \in 1..Len(files) |-> FileCard(files[i])]

RECURSIVE InflightOf(_, _)
InflightOf(g, f) ==
  IF g = <<>> THEN 0
  ELSE (IF Head(g).file = f THEN Head(g).inflight ELSE 0) + InflightOf(Tail(g), f)

RECURSIVE TotalInflight(_)
TotalInflight(g) == IF g = <<>> THEN 0 ELSE Head(g).inflight + TotalInflight(Tail(g))

RECURSIVE SumOver(_, _)
SumOver(fn, S) ==
  IF S = {} THEN 0 ELSE LET x == CHOOSE x \in S : TRUE IN fn[x] + SumOver(fn, S \ {x})

InFlight == TotalInflight(gallery) + SumOver(stale, FileIds)

HasCardFor(g, f) == \E i \in 1..Len(g) : g[i].kind = "file" /\ g[i].file = f

\* renderFolderView(node) with currentPath = path and showPyFiles = showPy:
\* the gallery is emptied (the reads of its cards stay in flight), the
\* breadcrumbs are rebuilt, the cards of node are appended.
renderFolderView(node, path, showPy, cards) ==
  /\ gallery' = CardsOf(node, showPy)
  /\ stale' = [f \in FileIds |-> stale[f] + InflightOf(gallery, f)]
  /\ breadcrumbs' = path
  /\ shown' = node
  /\ cardsOf' = IF HasCardFor(CardsOf(node, showPy), tracked) THEN Bump(cards) ELSE cards

\* ---------------------------------------------------------------- viewer

\* The ids collected from the registry instead of from the cards of the listing.
getAllCardIds_fromRegistry(g) ==
  SelectSeq([i \in 1..MaxId |-> i], LAMBDA id : id \in DOMAIN cardMap)

\* gallery.querySelectorAll('.card') in document order, the cards with a
\* dataset.cardId.
getAllCardIds(g) ==
  LET withId == SelectSeq(g, LAMBDA c : c.cardId # NoId)
  IN [i \in 1..Len(withId) |-> withId[i].cardId]

\* Array.prototype.indexOf, 0-based, -1 when absent.
IndexOf(s, x) ==
  IF \E i \in 1..Len(s) : s[i] = x
  THEN (CHOOSE i \in 1..Len(s) : s[i] = x /\ \A j \in 1..(i - 1) : s[j] # x) - 1
  ELSE -1

hasPrev(idx) == idx > 0
hasNext(idx, ids) == idx < Len(ids) - 1

updateNavigationButtons(idx, ids) ==
  /\ prevDisabled' = ~hasPrev(idx)
  /\ nextDisabled' = ~hasNext(idx, ids)

loadNotebookInModal(meta) ==
  /\ viewerTitle' = meta.filename
  /\ viewerBody' = IF meta.type = PY \/ FileOf(meta.raw).text # "badjson"
                   THEN meta.raw ELSE viewerBody

\* A close that hides the viewer and leaves the navigation state behind.
closeModal_keepsNavigation ==
  /\ modalOpen' = FALSE
  /\ viewerBody' = 0
  /\ UNCHANGED <<currentCardIndex, navigationCardIds, viewerTitle, prevDisabled, nextDisabled>>

closeModal ==
  /\ modalOpen' = FALSE
  /\ viewerBody' = 0
  /\ currentCardIndex' = -1
  /\ navigationCardIds' = <<>>
  /\ UNCHANGED <<viewerTitle, prevDisabled, nextDisabled>>

\* openNotebookModal without the early return: the navigation state is
\* assigned, then loadNotebookInModal(undefined) throws.
openNotebookModal_noGuard(cardId) ==
  /\ navigationCardIds' = getAllCardIds(gallery)
  /\ currentCardIndex' = IndexOf(getAllCardIds(gallery), cardId)
  /\ IF cardId \in DOMAIN cardMap
     THEN /\ loadNotebookInModal(cardMap[cardId])
          /\ updateNavigationButtons(currentCardIndex', navigationCardIds')
          /\ modalOpen' = TRUE
     ELSE UNCHANGED <<viewerTitle, viewerBody, prevDisabled, nextDisabled, modalOpen>>

openNotebookModal(cardId) ==
  IF cardId \notin DOMAIN cardMap
  THEN UNCHANGED <<navigationCardIds, currentCardIndex, viewerTitle, viewerBody,
                   prevDisabled, nextDisabled, modalOpen>>
  ELSE /\ navigationCardIds' = getAllCardIds(gallery)
       /\ currentCardIndex' = IndexOf(getAllCardIds(gallery), cardId)
       /\ loadNotebookInModal(cardMap[cardId])
       /\ updateNavigationButtons(currentCardIndex', navigationCardIds')
       /\ modalOpen' = TRUE

\* The body shared by navigatePrevious and navigateNext once the guard passed:
\* the cursor has moved to idx.
stepTo(idx) ==
  /\ currentCardIndex' = idx
  /\ LET cardId == IF idx + 1 \in DOMAIN navigationCardIds
                   THEN navigationCardIds[idx + 1] ELSE NoId
     IN IF cardId \in DOMAIN cardMap
        THEN /\ loadNotebookInModal(cardMap[cardId])
             /\ updateNavigationButtons(idx, navigationCardIds)
        ELSE UNCHANGED <<viewerTitle, viewerBody, prevDisabled, nextDisabled>>

\* The guards of navigatePrevious and navigateNext.
canGoPrevious == currentCardIndex > 0 /\ ~prevDisabled
canGoNext == currentCardIndex < Len(navigationCardIds) - 1 /\ ~nextDisabled

navigatePrevious ==
  /\ IF canGoPrevious
     THEN stepTo(currentCardIndex - 1)
     ELSE UNCHANGED <<currentCardIndex, viewerTitle, viewerBody, prevDisabled, nextDisabled>>
  /\ UNCHANGED <<navigationCardIds, modalOpen>>

\* A carousel that wraps around at the end.
navigateNext_wraps ==
  /\ IF navigationCardIds # <<>> /\ ~nextDisabled
     THEN stepTo((currentCardIndex + 1) % Len(navigationCardIds))
     ELSE UNCHANGED <<currentCardIndex, viewerTitle, viewerBody, prevDisabled, nextDisabled>>
  /\ UNCHANGED <<navigationCardIds, modalOpen>>

navigateNext ==
  /\ IF canGoNext
     THEN stepTo(currentCardIndex + 1)
     ELSE UNCHANGED <<currentCardIndex, viewerTitle, viewerBody, prevDisabled, nextDisabled>>
  /\ UNCHANGED <<navigationCardIds, modalOpen>>

\* ---------------------------------------------------------------- handlers

viewerVars == <<currentCardIndex, navigationCardIds, modalOpen, prevDisabled,
                nextDisabled, viewerTitle, viewerBody>>
listingVars == <<gallery, shown, breadcrumbs, stale, cardsOf>>

Init ==
  /\ folderStructure = EmptyObj
  /\ currentPath = <<>>
  /\ showPyFiles \in BOOLEAN
  /\ cardMap = NoMap
  /\ currentCardIndex = -1
  /\ navigationCardIds = <<>>
  /\ gallery = <<>>
  /\ shown = EmptyObj
  /\ breadcrumbs = <<>>
  /\ listingShown = FALSE
  /\ stale = [f \in FileIds |-> 0]
  /\ modalOpen = FALSE
  /\ prevDisabled = FALSE
  /\ nextDisabled = FALSE
  /\ notices = {}
  /\ viewerTitle = ""
  /\ viewerBody = 0
  /\ tracked = 0
  /\ readsOf = 0
  /\ cardsOf = 0

\* initGallery adding the files to the tree it already has.
Load_mergesIntoOldTree(files) ==
  LET supported == supportedFiles(files)
      tree == BuildFrom(folderStructure, supported)
  IN IF supported = <<>>
     THEN /\ notices' = notices \cup {"alert"}
          /\ UNCHANGED <<folderStructure, currentPath, showPyFiles, cardMap, listingShown,
                         tracked, readsOf>>
          /\ UNCHANGED listingVars
          /\ UNCHANGED viewerVars
     ELSE IF tree.kind = "throw"
     THEN /\ notices' = notices \cup {"error"}
          /\ UNCHANGED <<folderStructure, currentPath, showPyFiles, cardMap, listingShown,
                         tracked, readsOf>>
          /\ UNCHANGED listingVars
          /\ UNCHANGED viewerVars
     ELSE /\ folderStructure' = tree
          /\ currentPath' = <<>>
          /\ renderFolderView(tree, <<>>, showPyFiles, 0)
          /\ listingShown' = TRUE
          /\ readsOf' = 0
          /\ UNCHANGED <<showPyFiles, cardMap, tracked, notices>>
          /\ UNCHANGED viewerVars

\* initGallery with the alert and without the return after it.
Load_noEarlyReturn(files) ==
  LET supported == supportedFiles(files)
      tree == buildTree(supported)
  IN IF tree.kind = "throw"
     THEN /\ notices' = notices \cup {"error"}
          /\ UNCHANGED <<folderStructure, currentPath, showPyFiles, cardMap, listingShown,
                         tracked, readsOf>>
          /\ UNCHANGED listingVars
          /\ UNCHANGED viewerVars
     ELSE /\ notices' = IF supported = <<>> THEN notices \cup {"alert"} ELSE notices
          /\ folderStructure' = tree
          /\ currentPath' = <<>>
          /\ renderFolderView(tree, <<>>, showPyFiles, 0)
          /\ listingShown' = TRUE
          /\ readsOf' = 0
          /\ UNCHANGED <<showPyFiles, cardMap, tracked>>
          /\ UNCHANGED viewerVars

\* initGallery without currentPath = [].
Load_keepsPath(files) ==
  LET supported == supportedFiles(files)
      tree == buildTree(supported)
  IN IF supported = <<>>
     THEN /\ notices' = notices \cup {"alert"}
          /\ UNCHANGED <<folderStructure, currentPath, showPyFiles, cardMap, listingShown,
                         tracked, readsOf>>
          /\ UNCHANGED listingVars
          /\ UNCHANGED viewerVars
     ELSE IF tree.kind = "throw"
     THEN /\ notices' = notices \cup {"error"}
          /\ UNCHANGED <<folderStructure, currentPath, showPyFiles, cardMap, listingShown,
                         tracked, readsOf>>
          /\ UNCHANGED listingVars
          /\ UNCHANGED viewerVars
     ELSE /\ folderStructure' = tree
          /\ renderFolderView(tree, currentPath, showPyFiles, 0)
          /\ listingShown' = TRUE
          /\ readsOf' = 0
          /\ UNCHANGED <<currentPath, showPyFiles, cardMap, tracked, notices>>
          /\ UNCHANGED viewerVars

\* initGallery(files), fileAt giving the File object of each.
initGallery(files, fileAt) ==
  LET supported == supportedFiles(files)
      tree == BuildOver(fileAt, EmptyObj, supported)
  IN IF supported = <<>>
     THEN \* the alert and the early return
          /\ notices' = notices \cup {"alert"}
          /\ UNCHANGED <<folderStructure, currentPath, showPyFiles, cardMap, listingShown,
                         tracked, readsOf>>
          /\ UNCHANGED listingVars
          /\ UNCHANGED viewerVars
     ELSE IF tree.kind = "throw"
     THEN \* buildTree threw: nothing is assigned, the error is reported
          /\ notices' = notices \cup {"error"}
          /\ UNCHANGED <<folderStructure, currentPath, showPyFiles, cardMap, listingShown,
                         tracked, readsOf>>
          /\ UNCHANGED listingVars
          /\ UNCHANGED viewerVars
     ELSE /\ folderStructure' = tree
          /\ currentPath' = <<>>
          /\ renderFolderView(tree, <<>>, showPyFiles, 0)
          /\ listingShown' = TRUE
          /\ readsOf' = 0
          /\ UNCHANGED <<showPyFiles, cardMap, tracked, notices>>
          /\ UNCHANGED viewerVars

\* The change of the folder input, and a drop without items: initGallery of
\* the file list of the event.
Load(files) ==
  /\ initGallery(files, Files)

\* A drop of items: the traversal of each entry, then initGallery of the
\* files collected.
Drop(items) ==
  /\ items # <<>>
  /\ LET acc == traverseItems(items, [fileList |-> <<>>, fileAt |-> Files])
     IN initGallery(acc.fileList, acc.fileAt)

\* The onclick of folder card i of the listing.
EnterFolder(i) ==
  /\ gallery[i].kind = "folder"
  /\ currentPath' = Append(currentPath, gallery[i].name)
  /\ renderFolderView(Get(shown, gallery[i].name), currentPath', showPyFiles, cardsOf)
  /\ UNCHANGED <<folderStructure, showPyFiles, cardMap, listingShown, tracked, readsOf>>
  /\ UNCHANGED viewerVars
  /\ UNCHANGED notices

\* The onclick of the root breadcrumb.
JumpToRoot ==
  /\ listingShown
  /\ currentPath' = <<>>
  /\ renderFolderView(folderStructure, <<>>, showPyFiles, cardsOf)
  /\ UNCHANGED <<folderStructure, showPyFiles, cardMap, listingShown, tracked, readsOf>>
  /\ UNCHANGED viewerVars
  /\ UNCHANGED notices

\* currentPath.slice(0, i + 1), one path too short.
truncated_exclusive(path, i) == SubSeq(path, 1, IF i <= Len(path) THEN i ELSE Len(path))

\* currentPath.slice(0, i + 1)
truncated(path, i) == SubSeq(path, 1, IF i + 1 <= Len(path) THEN i + 1 ELSE Len(path))

\* The breadcrumb onclick without the check of each segment: the walk ends
\* in undefined and renderFolderView(undefined) throws after it emptied the
\* gallery and rebuilt the breadcrumbs.
JumpToBreadcrumb_noFallback(i) ==
  /\ listingShown
  /\ LET sliced == truncated(currentPath, i)
         node == Walk(folderStructure, sliced)
     IN /\ currentPath' = sliced
        /\ IF node.kind = "throw"
           THEN /\ gallery' = <<>>
                /\ stale' = [f \in FileIds |-> stale[f] + InflightOf(gallery, f)]
                /\ breadcrumbs' = sliced
                /\ UNCHANGED <<shown, cardsOf>>
           ELSE renderFolderView(node, sliced, showPyFiles, cardsOf)
  /\ UNCHANGED <<folderStructure, showPyFiles, cardMap, listingShown, tracked, readsOf>>
  /\ UNCHANGED viewerVars
  /\ UNCHANGED notices

\* The onclick of breadcrumb span i (0-based), built from breadcrumbs.
JumpToBreadcrumb(i) ==
  /\ listingShown
  /\ LET sliced == truncated(currentPath, i)
         node == Walk(folderStructure, sliced)
     IN IF node.kind = "throw"
        THEN /\ notices' = notices \cup {"warn"}
             /\ currentPath' = <<>>
             /\ renderFolderView(folderStructure, <<>>, showPyFiles, cardsOf)
        ELSE /\ currentPath' = sliced
             /\ renderFolderView(node, sliced, showPyFiles, cardsOf)
             /\ UNCHANGED notices
  /\ UNCHANGED <<folderStructure, showPyFiles, cardMap, listingShown, tracked, readsOf>>
  /\ UNCHANGED viewerVars

\* The change handler of the show-py toggle.
ToggleShowPy ==
  /\ showPyFiles' = ~showPyFiles
  /\ renderFolderView(Walk(folderStructure, currentPath), currentPath, showPyFiles', cardsOf)
  /\ UNCHANGED <<folderStructure, currentPath, cardMap, listingShown, tracked, readsOf>>
  /\ UNCHANGED viewerVars
  /\ UNCHANGED notices

\* A clear that also resets the navigation state of the viewer.
Clear_resetsNavigation ==
  /\ folderStructure' = EmptyObj
  /\ currentPath' = <<>>
  /\ cardMap' = NoMap
  /\ gallery' = <<>>
  /\ shown' = EmptyObj
  /\ stale' = [f \in FileIds |-> stale[f] + InflightOf(gallery, f)]
  /\ listingShown' = FALSE
  /\ readsOf' = 0
  /\ cardsOf' = 0
  /\ currentCardIndex' = -1
  /\ navigationCardIds' = <<>>
  /\ UNCHANGED <<showPyFiles, breadcrumbs, tracked, modalOpen, prevDisabled,
                 nextDisabled, viewerTitle, viewerBody>>
  /\ UNCHANGED notices

\* The click handler of the clear button.
Clear ==
  /\ folderStructure' = EmptyObj
  /\ currentPath' = <<>>
  /\ cardMap' = NoMap
  /\ gallery' = <<>>
  /\ shown' = EmptyObj
  /\ stale' = [f \in FileIds |-> stale[f] + InflightOf(gallery, f)]
  /\ listingShown' = FALSE
  /\ readsOf' = 0
  /\ cardsOf' = 0
  /\ UNCHANGED <<showPyFiles, breadcrumbs, tracked>>
  /\ UNCHANGED viewerVars
  /\ UNCHANGED notices

\* The callback without obs.disconnect(): the card stays observed.
disconnect_missing(card) == card

\* obs.disconnect()
disconnect(card) == [card EXCEPT !.observing = FALSE]

\* The IntersectionObserver callback of card i, with the entry of that card:
\* each card has an observer of its own, and a delivery carries one entry.
Intersect(i, isIntersecting) ==
  /\ gallery[i].kind = "file"
  /\ gallery[i].observing
  /\ IF isIntersecting
     THEN /\ InFlight < MaxInFlight
          /\ gallery' = [gallery EXCEPT ![i] =
                 [disconnect(@) EXCEPT !.inflight = @ + 1, !.started = Bump(@)]]
          /\ readsOf' = IF gallery[i].file = tracked THEN Bump(readsOf) ELSE readsOf
     ELSE /\ UNCHANGED <<gallery, readsOf>>
  /\ UNCHANGED <<folderStructure, currentPath, showPyFiles, cardMap, shown, breadcrumbs,
                 listingShown, stale, tracked, cardsOf>>
  /\ UNCHANGED viewerVars
  /\ UNCHANGED notices

\* Whether the try block of reader.onload runs to its end for file f.
Parses(f) == ExtOf(f) = PY \/ FileOf(f).text # "badjson"

MetaOf(f) == [filename |-> FileOf(f).name, raw |-> f, type |-> ExtOf(f)]

\* cardMap.set(id, meta)
register(map, id, meta) == (id :> meta) @@ map

\* A reader.onload whose catch block registers the card as well.
ReadLoaded_registersOnError(i) ==
  /\ gallery[i].inflight > 0
  /\ \E id \in Ids :
       /\ gallery' = [gallery EXCEPT ![i] =
              [@ EXCEPT !.inflight = @ - 1,
                        !.content = IF Parses(gallery[i].file) THEN "preview" ELSE "error",
                        !.cardId = id, !.regs = Bump(@)]]
       /\ cardMap' = register(cardMap, id, MetaOf(gallery[i].file))
  /\ UNCHANGED <<folderStructure, currentPath, showPyFiles, shown, breadcrumbs,
                 listingShown, stale, tracked, readsOf, cardsOf>>
  /\ UNCHANGED viewerVars
  /\ UNCHANGED notices

\* reader.onload of a read of card i, the card still in the listing.
ReadLoaded(i) ==
  /\ gallery[i].inflight > 0
  /\ IF Parses(gallery[i].file)
     THEN \E id \in Ids :
            /\ gallery' = [gallery EXCEPT ![i] =
                   [@ EXCEPT !.inflight = @ - 1, !.content = "preview",
                             !.cardId = id, !.regs = Bump(@)]]
            /\ cardMap' = register(cardMap, id, MetaOf(gallery[i].file))
     ELSE /\ gallery' = [gallery EXCEPT ![i] =
                 [@ EXCEPT !.inflight = @ - 1, !.content = "error"]]
          /\ UNCHANGED cardMap
  /\ UNCHANGED <<folderStructure, currentPath, showPyFiles, shown, breadcrumbs,
                 listingShown, stale, tracked, readsOf, cardsOf>>
  /\ UNCHANGED viewerVars
  /\ UNCHANGED notices

\* A reader whose onerror handler writes the error placeholder.
ReadFailed_showsPlaceholder(i) ==
  /\ gallery[i].inflight > 0
  /\ gallery' = [gallery EXCEPT ![i] = [@ EXCEPT !.inflight = @ - 1, !.content = "error"]]
  /\ UNCHANGED <<folderStructure, currentPath, showPyFiles, cardMap, shown, breadcrumbs,
                 listingShown, stale, tracked, readsOf, cardsOf>>
  /\ UNCHANGED viewerVars
  /\ UNCHANGED notices

\* The read of card i fails: the reader has no onerror handler.
ReadFailed(i) ==
  /\ gallery[i].inflight > 0
  /\ gallery' = [gallery EXCEPT ![i] = [@ EXCEPT !.inflight = @ - 1]]
  /\ UNCHANGED <<folderStructure, currentPath, showPyFiles, cardMap, shown, breadcrumbs,
                 listingShown, stale, tracked, readsOf, cardsOf>>
  /\ UNCHANGED viewerVars
  /\ UNCHANGED notices

\* A completion that looks its card up in the document by file instead of
\* keeping the card it was started for.
StaleLoaded_findsCardByFile(f) ==
  /\ stale[f] > 0
  /\ stale' = [stale EXCEPT ![f] = @ - 1]
  /\ IF Parses(f)
     THEN \E id \in Ids :
            /\ cardMap' = register(cardMap, id, MetaOf(f))
            /\ gallery' = [k \in 1..Len(gallery) |->
                 IF gallery[k].kind = "file" /\ gallery[k].file = f
                 THEN [gallery[k] EXCEPT !.content = "preview", !.cardId = id]
                 ELSE gallery[k]]
     ELSE UNCHANGED <<cardMap, gallery>>
  /\ UNCHANGED <<folderStructure, currentPath, showPyFiles, shown, breadcrumbs,
                 listingShown, tracked, readsOf, cardsOf>>
  /\ UNCHANGED viewerVars
  /\ UNCHANGED notices

\* reader.onload of a read whose card was removed from the listing.
StaleLoaded(f) ==
  /\ stale[f] > 0
  /\ stale' = [stale EXCEPT ![f] = @ - 1]
  /\ IF Parses(f)
     THEN \E id \in Ids :
            /\ cardMap' = register(cardMap, id, MetaOf(f))
     ELSE UNCHANGED cardMap
  /\ UNCHANGED <<folderStructure, currentPath, showPyFiles, gallery, shown, breadcrumbs,
                 listingShown, tracked, readsOf, cardsOf>>
  /\ UNCHANGED viewerVars
  /\ UNCHANGED notices

\* A read whose card was removed from the listing fails.
StaleFailed(f) ==
  /\ stale[f] > 0
  /\ stale' = [stale EXCEPT ![f] = @ - 1]
  /\ UNCHANGED <<folderStructure, currentPath, showPyFiles, cardMap, gallery, shown,
                 breadcrumbs, listingShown, tracked, readsOf, cardsOf>>
  /\ UNCHANGED viewerVars
  /\ UNCHANGED notices

appVars == <<folderStructure, currentPath, showPyFiles, cardMap, gallery, shown,
             breadcrumbs, listingShown, stale, notices, tracked, readsOf, cardsOf>>

\* The onclick of file card i, set when the card was registered.
OpenCard(i) ==
  /\ gallery[i].cardId # NoId
  /\ openNotebookModal(gallery[i].cardId)
  /\ UNCHANGED appVars

\* openNotebookModal with an id that is no key of cardMap.
OpenStaleId(id) ==
  /\ id \notin DOMAIN cardMap
  /\ openNotebookModal(id)
  /\ UNCHANGED appVars

\* ArrowLeft in the open viewer, or a click on the previous button.
NavigatePrevious ==
  /\ navigatePrevious
  /\ UNCHANGED appVars

\* ArrowRight in the open viewer, or a click on the next button.
NavigateNext ==
  /\ navigateNext
  /\ UNCHANGED appVars

CloseRoutes == {"closeButton", "closeBackdrop", "closeEscape"}

\* The close button, a click on the backdrop, or Escape.
Close(route) ==
  /\ modalOpen
  /\ closeModal
  /\ UNCHANGED appVars

Next ==
  \/ \E files \in LoadInputs : Load(files)
  \/ \E items \in SessionDrops : Drop(items)
  \/ \E i \in 1..Len(gallery) : EnterFolder(i)
  \/ JumpToRoot
  \/ \E i \in 0..(Len(breadcrumbs) - 1) : JumpToBreadcrumb(i)
  \/ ToggleShowPy
  \/ Clear
  \/ \E i \in 1..Len(gallery), b \in BOOLEAN : Intersect(i, b)
  \/ \E i \in 1..Len(gallery) : ReadLoaded(i)
  \/ \E i \in 1..Len(gallery) : ReadFailed(i)
  \/ \E f \in FileIds : StaleLoaded(f)
  \/ \E f \in FileIds : StaleFailed(f)
  \/ \E i \in 1..Len(gallery) : OpenCard(i)
  \/ \E id \in Ids : OpenStaleId(id)
  \/ NavigatePrevious
  \/ NavigateNext
  \/ \E route \in CloseRoutes : Close(route)

Spec == Init /\ [][Next]_vars

\* The listing alone, with the reads of one file counted: the file is chosen
\* at the start of the behaviour among the supported files.
InitReads ==
  /\ folderStructure = EmptyObj
  /\ currentPath = <<>>
  /\ showPyFiles \in BOOLEAN
  /\ cardMap = NoMap
  /\ currentCardIndex = -1
  /\ navigationCardIds = <<>>
  /\ gallery = <<>>
  /\ shown = EmptyObj
  /\ breadcrumbs = <<>>
  /\ listingShown = FALSE
  /\ stale = [f \in FileIds |-> 0]
  /\ modalOpen = FALSE
  /\ prevDisabled = FALSE
  /\ nextDisabled = FALSE
  /\ notices = {}
  /\ viewerTitle = ""
  /\ viewerBody = 0
  /\ tracked \in {f \in FileIds : IsSupported(f)}
  /\ readsOf = 0
  /\ cardsOf = 0

NextListing ==
  \/ \E files \in ListingInputs : Load(files)
  \/ \E i \in 1..Len(gallery) : EnterFolder(i)
  \/ JumpToRoot
  \/ \E i \in 0..(Len(breadcrumbs) - 1) : JumpToBreadcrumb(i)
  \/ ToggleShowPy
  \/ Clear
  \/ \E i \in 1..Len(gallery), b \in BOOLEAN : Intersect(i, b)
  \/ \E i \in 1..Len(gallery) : ReadLoaded(i)
  \/ \E i \in 1..Len(gallery) : ReadFailed(i)
  \/ \E f \in FileIds : StaleLoaded(f)
  \/ \E f \in FileIds : StaleFailed(f)

SpecReads == InitReads /\ [][NextListing]_vars

\* One listing with its reads and the viewer: folder a after the load of a
\* notebook that does not parse, a script and a notebook, the scripts shown.
ParseInput == <<-1, 2, 5>>

InitParse ==
  /\ folderStructure = buildTree(ParseInput)
  /\ currentPath = <<"a">>
  /\ showPyFiles = TRUE
  /\ cardMap = NoMap
  /\ currentCardIndex = -1
  /\ navigationCardIds = <<>>
  /\ gallery = CardsOf(Get(buildTree(ParseInput), "a"), TRUE)
  /\ shown = Get(buildTree(ParseInput), "a")
  /\ breadcrumbs = <<"a">>
  /\ listingShown = TRUE
  /\ stale = [f \in FileIds |-> 0]
  /\ modalOpen = FALSE
  /\ prevDisabled = FALSE
  /\ nextDisabled = FALSE
  /\ notices = {}
  /\ viewerTitle = ""
  /\ viewerBody = 0
  /\ tracked = 5
  /\ readsOf = 0
  /\ cardsOf = 1

NextParse ==
  \/ \E i \in 1..Len(gallery), b \in BOOLEAN : Intersect(i, b)
  \/ \E i \in 1..Len(gallery) : ReadLoaded(i)
  \/ \E i \in 1..Len(gallery) : ReadFailed(i)
  \/ \E i \in 1..Len(gallery) : OpenCard(i)
  \/ \E id \in Ids : OpenStaleId(id)
  \/ NavigatePrevious
  \/ NavigateNext
  \/ \E route \in CloseRoutes : Close(route)

SpecParse == InitParse /\ [][NextParse]_vars

\* The breadcrumb handler alone, applied to any tree of a load and any path
\* of up to MaxDepth folder names, whether the path resolves in the tree or
\* not, with and without an entry in the registry.  (From Init the handlers
\* keep currentPath resolving, so that Spec never takes the fallback branch.)
MaxDepth == 2

JumpNames == {"a", "b", "q"}

JumpPaths ==
  UNION { [1..n -> JumpNames] : n \in 0..MaxDepth }

JumpTrees == { buildTree(supportedFiles(files)) : files \in LoadInputs } \cup { EmptyObj }

InitJump ==
  /\ folderStructure \in JumpTrees
  /\ currentPath \in JumpPaths
  /\ showPyFiles \in BOOLEAN
  /\ cardMap \in { NoMap, register(NoMap, 1, MetaOf(2)) }
  /\ currentCardIndex = -1
  /\ navigationCardIds = <<>>
  /\ gallery = <<>>
  /\ shown = EmptyObj
  /\ breadcrumbs = currentPath
  /\ listingShown = TRUE
  /\ stale = [f \in FileIds |-> 0]
  /\ modalOpen = FALSE
  /\ prevDisabled = FALSE
  /\ nextDisabled = FALSE
  /\ notices = {}
  /\ viewerTitle = ""
  /\ viewerBody = 0
  /\ tracked = 0
  /\ readsOf = 0
  /\ cardsOf = 0

NextJump == \E i \in 0..(Len(breadcrumbs) - 1) : JumpToBreadcrumb(i)

SpecJump == InitJump /\ [][NextJump]_vars

\* The loads alone, with every list of up to MaxFiles of the files, in every
\* order and with repetitions.
MaxFiles == 3

TreeInputs == UNION { [1..n -> FileIds] : n \in 1..MaxFiles }

NextTree == \E files \in TreeInputs : Load(files)

SpecTree == Init /\ [][NextTree]_vars

\* The first load of a session alone: buildTree starts from an empty tree
\* every time, so what it builds depends on the list loaded only.
\* The lists with a metadata file among them.
FilterInputs == UNION { [1..n -> {2, 4, 7}] : n \in 1..MaxFiles }

BuildInputs == TreeInputs \cup FilterInputs

NextFirstLoad ==
  \/ \E files \in BuildInputs : ~listingShown /\ Load(files)
  \/ \E items \in DropInputs : ~listingShown /\ Drop(items)

SpecBuild == Init /\ [][NextFirstLoad]_vars

\* The first loads with the File objects of p.ipynb: each alone, and each
\* after the one with the picker's hint a/p.ipynb.
PathInputs ==
  { <<f>> : f \in ExtraFileIds \cup PathFileIds }
    \cup { <<9, f>> : f \in ExtraFileIds \cup PathFileIds }

\* The drops of a folder t with one of these File objects in it.
PathDrops == { << DirEntry("t", <<FileEntry(f)>>) >> : f \in 8..10 }

NextPaths ==
  \/ \E files \in PathInputs : ~listingShown /\ Load(files)
  \/ \E items \in PathDrops : ~listingShown /\ Drop(items)

SpecPaths == Init /\ [][NextPaths]_vars

\* ---------------------------------------------------------------- rendering

NOTEBOOK_PREVIEW_CELLS == 3

\* The values of a parsed notebook that the renderers read: a string, an
\* array of strings, or undefined.
JStr(s) == [kind |-> "string", str |-> s, items |-> <<>>]
JArr(items) == [kind |-> "array", str |-> "", items |-> items]
Undefined == [kind |-> "undefined", str |-> "", items |-> <<>>]

\* null where the renderers expect a cell or an output, and the place in the
\* HTML where reading a property of it throws TypeError.
JNull == [kind |-> "null"]
ThrowEl == [tag |-> "throw"]
Thrown(html) == \E k \in 1..Len(html) : html[k].tag = "throw"

\* Whether a value counts as true in a condition.
Truthy(v) == v.kind = "array" \/ (v.kind = "string" /\ v.str # "")

\* items.join('')
RECURSIVE join(_)
join(items) == IF items = <<>> THEN "" ELSE Head(items) \o join(Tail(items))

\* Array.isArray(v) ? v.join('') : v, the undefined value as the empty
\* string: every use of it tests the result with ! or with || ''.
joined(v) == IF v.kind = "array" THEN join(v.items) ELSE v.str

\* The string functions, on the strings of the model.
trim(s) == IF s = " c " THEN "c" ELSE s

\* A string cut at the characters & < > " ': each of them by itself, the
\* runs of other characters between them whole.  The other strings of the
\* model hold none of the five.
Chars(s) ==
  CASE s = "a<b" -> <<"a", "<", "b">>
    [] s = "<Figure size 1x1>" -> <<"<", "Figure size 1x1", ">">>
    [] s = "<Figure size 640x480 with 1 Axes>" -> <<"<", "Figure size 640x480 with 1 Axes", ">">>
    [] s = "<script>&\"'</script>" ->
         <<"<", "script", ">", "&", "\"", "'", "<", "/script", ">">>
    [] OTHER -> <<s>>

\* The replacement function of escapeHtml.
Entity(m) ==
  CASE m = "&" -> "&amp;"
    [] m = "<" -> "&lt;"
    [] m = ">" -> "&gt;"
    [] m = "\"" -> "&quot;"
    [] m = "'" -> "&#39;"
    [] OTHER -> m

\* s.replace(/[&<>"']/g, m => entity of m)
escapeHtml(s) == join([k \in 1..Len(Chars(s)) |-> Entity(Chars(s)[k])])

includes(text, part) ==
  CASE part = "<Figure size" ->
         text \in {"<Figure size 1x1>", "<Figure size 640x480 with 1 Axes>"}
    [] part = "Figure(" -> text \in {"Figure(1x1)", "Figure(640x480)"}
    [] OTHER -> FALSE

\* The HTML a renderer returns is the sequence of its elements.
\* renderMarkdown: nothing for an empty text, else a paragraph; the texts of
\* the model have no markup for the replaces to change.
renderMarkdown(text) == IF text = "" THEN <<>> ELSE <<[tag |-> "p", text |-> text]>>

CodeBlock(text) == [tag |-> "pre-code", text |-> text]

\* nb.cells || []
CellsOf(nb) == IF "cells" \in DOMAIN nb THEN nb.cells ELSE <<>>

\* The loop of renderNotebookPreview counting every cell it passes.
RECURSIVE previewFrom_countsEveryCell(_, _)
previewFrom_countsEveryCell(cells, count) ==
  IF cells = <<>> \/ count >= NOTEBOOK_PREVIEW_CELLS THEN <<>>
  ELSE LET c == Head(cells)
       IN IF c = JNull THEN <<ThrowEl>>
          ELSE IF c.cell_type = "markdown"
          THEN renderMarkdown(joined(c.source))
                 \o previewFrom_countsEveryCell(Tail(cells), count + 1)
          ELSE IF c.cell_type = "code"
          THEN <<CodeBlock(escapeHtml(trim(joined(c.source))))>>
                 \o previewFrom_countsEveryCell(Tail(cells), count + 1)
          ELSE previewFrom_countsEveryCell(Tail(cells), count + 1)

\* The loop of renderNotebookPreview from the cells left, count of them
\* rendered so far.
RECURSIVE previewFrom(_, _)
previewFrom(cells, count) ==
  IF cells = <<>> \/ count >= NOTEBOOK_PREVIEW_CELLS THEN <<>>
  ELSE LET c == Head(cells)
       IN IF c = JNull THEN <<ThrowEl>>
          ELSE IF c.cell_type = "markdown"
          THEN renderMarkdown(joined(c.source)) \o previewFrom(Tail(cells), count + 1)
          ELSE IF c.cell_type = "code"
          THEN <<CodeBlock(escapeHtml(trim(joined(c.source))))>>
                 \o previewFrom(Tail(cells), count + 1)
          ELSE previewFrom(Tail(cells), count)

renderNotebookPreview(nb) == previewFrom(CellsOf(nb), 0)

\* o.data && o.data[mime]
DataHas(o, mime) ==
  /\ "data" \in DOMAIN o
  /\ mime \in DOMAIN o.data
  /\ Truthy(o.data[mime])

Img(mime, payload) == [tag |-> "img", mime |-> mime, data |-> payload]
Out(text) == [tag |-> "out", text |-> text]

\* The rendering of one output with the plain text tested before the images.
renderOutput_textFirst(o) ==
  IF DataHas(o, "text/plain")
  THEN LET text == joined(o.data["text/plain"])
       IN IF ~includes(text, "<Figure size") /\ ~includes(text, "Figure(")
          THEN <<Out(escapeHtml(text))>> ELSE <<>>
  ELSE IF DataHas(o, "image/png") THEN <<Img("image/png", joined(o.data["image/png"]))>>
  ELSE IF DataHas(o, "image/jpeg") THEN <<Img("image/jpeg", joined(o.data["image/jpeg"]))>>
  ELSE IF DataHas(o, "image/svg+xml")
  THEN <<Img("image/svg+xml", joined(o.data["image/svg+xml"]))>>
  ELSE IF o.output_type = "stream" /\ "text" \in DOMAIN o /\ Truthy(o.text)
  THEN <<Out(escapeHtml(joined(o.text)))>>
  ELSE <<>>

\* The rendering of one output with the JPEG image tested before the PNG
\* image.
renderOutput_jpegFirst(o) ==
  IF DataHas(o, "image/jpeg") THEN <<Img("image/jpeg", joined(o.data["image/jpeg"]))>>
  ELSE IF DataHas(o, "image/png") THEN <<Img("image/png", joined(o.data["image/png"]))>>
  ELSE IF DataHas(o, "image/svg+xml")
  THEN <<Img("image/svg+xml", joined(o.data["image/svg+xml"]))>>
  ELSE IF DataHas(o, "text/plain")
  THEN LET text == joined(o.data["text/plain"])
       IN IF ~includes(text, "<Figure size") /\ ~includes(text, "Figure(")
          THEN <<Out(escapeHtml(text))>> ELSE <<>>
  ELSE IF o.output_type = "stream" /\ "text" \in DOMAIN o /\ Truthy(o.text)
  THEN <<Out(escapeHtml(joined(o.text)))>>
  ELSE <<>>

\* The rendering of one output with the figure test as part of the condition
\* of the plain-text branch: the echo of a figure falls through to the stream
\* text.
renderOutput_figureFallsThrough(o) ==
  IF DataHas(o, "image/png") THEN <<Img("image/png", joined(o.data["image/png"]))>>
  ELSE IF DataHas(o, "image/jpeg") THEN <<Img("image/jpeg", joined(o.data["image/jpeg"]))>>
  ELSE IF DataHas(o, "image/svg+xml")
  THEN <<Img("image/svg+xml", joined(o.data["image/svg+xml"]))>>
  ELSE IF /\ DataHas(o, "text/plain")
          /\ ~includes(joined(o.data["text/plain"]), "<Figure size")
          /\ ~includes(joined(o.data["text/plain"]), "Figure(")
  THEN <<Out(escapeHtml(joined(o.data["text/plain"])))>>
  ELSE IF o.output_type = "stream" /\ "text" \in DOMAIN o /\ Truthy(o.text)
  THEN <<Out(escapeHtml(joined(o.text)))>>
  ELSE <<>>

\* The body of the forEach over the outputs of a code cell.
renderOutput(o) ==
  IF DataHas(o, "image/png") THEN <<Img("image/png", joined(o.data["image/png"]))>>
  ELSE IF DataHas(o, "image/jpeg") THEN <<Img("image/jpeg", joined(o.data["image/jpeg"]))>>
  ELSE IF DataHas(o, "image/svg+xml")
  THEN <<Img("image/svg+xml", joined(o.data["image/svg+xml"]))>>
  ELSE IF DataHas(o, "text/plain")
  THEN LET text == joined(o.data["text/plain"])
       IN IF ~includes(text, "<Figure size") /\ ~includes(text, "Figure(")
          THEN <<Out(escapeHtml(text))>> ELSE <<>>
  ELSE IF o.output_type = "stream" /\ "text" \in DOMAIN o /\ Truthy(o.text)
  THEN <<Out(escapeHtml(joined(o.text)))>>
  ELSE <<>>

\* (c.outputs || []).forEach
RECURSIVE renderOutputs(_)
renderOutputs(outputs) ==
  IF outputs = <<>> THEN <<>>
  ELSE IF Head(outputs) = JNull THEN <<ThrowEl>>
  ELSE renderOutput(Head(outputs)) \o renderOutputs(Tail(outputs))

\* The div of one cell in the full view.
renderCell(c) ==
  IF c = JNull THEN [tag |-> "throw", class |-> "", body |-> <<>>]
  ELSE
  [tag |-> "div", class |-> c.cell_type,
   body |-> IF c.cell_type = "markdown" THEN renderMarkdown(joined(c.source))
            ELSE IF c.cell_type = "code"
            THEN <<CodeBlock(escapeHtml(joined(c.source)))>>
                   \o renderOutputs(IF "outputs" \in DOMAIN c THEN c.outputs ELSE <<>>)
            ELSE <<>>]

renderFullNotebook(nb) == [k \in 1..Len(CellsOf(nb)) |-> renderCell(CellsOf(nb)[k])]

\* Whether renderFullNotebook threw instead of returning html.
FullThrown(html) == \E k \in 1..Len(html) : html[k].tag = "throw" \/ Thrown(html[k].body)

\* The notebooks the text of a file can parse to: every list of up to
\* MaxCells cells of four kinds, a notebook without cells, one of cells
\* without source, and one code cell with every list of up to MaxOutputs
\* outputs of seven kinds.
MaxCells == 5
MaxOutputs == 2

CellKinds ==
  { [cell_type |-> "markdown", source |-> JStr("m")],
    [cell_type |-> "markdown", source |-> JStr("")],
    [cell_type |-> "code", source |-> JStr(" c ")],
    [cell_type |-> "raw", source |-> JStr("r")] }

OutputKinds ==
  { [output_type |-> "execute_result", data |-> ("text/plain" :> JStr("42"))],
    [output_type |-> "execute_result", data |-> ("text/plain" :> JArr(<<"4", "2">>))],
    [output_type |-> "display_data", data |-> ("image/png" :> JStr("AAAA"))],
    [output_type |-> "display_data",
     data |-> ("image/png" :> JStr("AAAA")) @@ ("text/plain" :> JStr("<Figure size 1x1>"))],
    [output_type |-> "display_data",
     data |-> ("image/jpeg" :> JStr("BBBB")) @@ ("text/plain" :> JStr("42"))],
    [output_type |-> "execute_result", data |-> ("text/plain" :> JStr("Figure(1x1)"))],
    [output_type |-> "stream", text |-> JStr("a<b")] }

\* The payloads an output can carry, and one output for every set of them:
\* the three images and the plain text in o.data, the stream text in o.text
\* of an output of type stream; the output carrying none of them is an error
\* output.
Payloads == {"image/png", "image/jpeg", "image/svg+xml", "text/plain", "stream"}

PayloadOf(p) ==
  CASE p = "image/png" -> JStr("AAAA")
    [] p = "image/jpeg" -> JStr("BBBB")
    [] p = "image/svg+xml" -> JStr("CCCC")
    [] p = "text/plain" -> JStr("42")
    [] p = "stream" -> JStr("s")

OutputWith(present) ==
  LET mimes == present \ {"stream"}
      data == [m \in mimes |-> PayloadOf(m)]
  IN IF "stream" \in present
     THEN IF mimes = {}
          THEN [output_type |-> "stream", text |-> PayloadOf("stream")]
          ELSE [output_type |-> "stream", text |-> PayloadOf("stream"), data |-> data]
     ELSE IF mimes = {}
          THEN [output_type |-> "error"]
          ELSE [output_type |-> "display_data", data |-> data]

OutputCombos == { OutputWith(present) : present \in SUBSET Payloads }

\* The outputs whose plain text echoes a figure: the text as one string and
\* as a list of line fragments (the substring inside one fragment or across
\* two), and with stream text in the same output.
FigureOutputs ==
  { [output_type |-> "execute_result",
     data |-> ("text/plain" :> JStr("<Figure size 640x480 with 1 Axes>"))],
    [output_type |-> "execute_result",
     data |-> ("text/plain" :> JArr(<<"<Figure size 640x480 ", "with 1 Axes>">>))],
    [output_type |-> "execute_result",
     data |-> ("text/plain" :> JArr(<<"<Figure", " size 640x480 with 1 Axes>">>))],
    [output_type |-> "execute_result", data |-> ("text/plain" :> JStr("Figure(640x480)"))],
    [output_type |-> "execute_result",
     data |-> ("text/plain" :> JArr(<<"Fig", "ure(640x480)">>))],
    [output_type |-> "stream", text |-> JStr("s"),
     data |-> ("text/plain" :> JStr("<Figure size 640x480 with 1 Axes>"))],
    [output_type |-> "stream", text |-> JArr(<<"s">>),
     data |-> ("text/plain" :> JStr("Figure(640x480)"))] }

\* Notebooks with the text <script>&"'</script> at one place each: the source
\* of a markdown cell, the source of a code cell, the plain text and the
\* stream text of an output, an image payload, the type of a cell.
XssText == "<script>&\"'</script>"

XssNotebooks ==
  { [cells |-> << [cell_type |-> "markdown", source |-> JStr(XssText)] >>],
    [cells |-> << [cell_type |-> "code", source |-> JStr(XssText)] >>],
    [cells |-> << [cell_type |-> "code", source |-> JStr("c"),
                   outputs |-> << [output_type |-> "execute_result",
                                   data |-> ("text/plain" :> JStr(XssText))] >>] >>],
    [cells |-> << [cell_type |-> "code", source |-> JStr("c"),
                   outputs |-> << [output_type |-> "stream", text |-> JStr(XssText)] >>] >>],
    [cells |-> << [cell_type |-> "code", source |-> JStr("c"),
                   outputs |-> << [output_type |-> "display_data",
                                   data |-> ("image/png" :> JStr(XssText))] >>] >>],
    [cells |-> << [cell_type |-> XssText, source |-> JStr("r")] >>] }

\* Notebooks that parse and do not have the structure the renderers read:
\* null in the place of an output, alone and after a stream output, and null
\* in the place of a cell.
MalformedNotebooks ==
  { [cells |-> << [cell_type |-> "code", source |-> JStr("c"),
                   outputs |-> <<JNull>>] >>],
    [cells |-> << [cell_type |-> "code", source |-> JStr("c"),
                   outputs |-> << [output_type |-> "stream", text |-> JStr("s")],
                                  JNull >>] >>],
    [cells |-> <<JNull>>] }

Notebooks ==
  { [cells |-> cells] : cells \in UNION { [1..n -> CellKinds] : n \in 0..MaxCells } }
    \cup { [nbformat |-> 4],
           [cells |-> << [cell_type |-> "markdown", source |-> Undefined],
                         [cell_type |-> "code", source |-> Undefined] >>] }
    \cup { [cells |-> << [cell_type |-> "code", source |-> JArr(<<"c", "d">>),
                         outputs |-> outputs] >>] :
             outputs \in UNION { [1..n -> OutputKinds] : n \in 0..MaxOutputs } }
    \cup { [cells |-> << [cell_type |-> "code", source |-> JArr(<<"c", "d">>),
                         outputs |-> <<o>>] >>] : o \in OutputCombos \cup FigureOutputs }
    \cup XssNotebooks
    \cup MalformedNotebooks

\* reader.onload of the read of notebook card i, the text parsing to nb: the
\* preview is rendered and the card registered under a new id.
PreviewLoaded(i, nb) ==
  /\ gallery[i].kind = "file"
  /\ gallery[i].ext = IPYNB
  /\ gallery[i].inflight > 0
  /\ IF Thrown(renderNotebookPreview(nb))
     THEN \* the catch block
          /\ gallery' = [gallery EXCEPT ![i] =
                 [@ EXCEPT !.inflight = @ - 1, !.content = "error"]]
          /\ UNCHANGED cardMap
     ELSE \E id \in Ids :
            /\ gallery' = [gallery EXCEPT ![i] =
                   [@ EXCEPT !.inflight = @ - 1, !.content = renderNotebookPreview(nb),
                             !.cardId = id, !.regs = Bump(@)]]
            /\ cardMap' = register(cardMap, id,
                                   [filename |-> gallery[i].name, raw |-> nb, type |-> IPYNB])
  /\ UNCHANGED <<folderStructure, currentPath, showPyFiles, shown, breadcrumbs,
                 listingShown, stale, tracked, readsOf, cardsOf>>
  /\ UNCHANGED viewerVars
  /\ UNCHANGED notices

\* The onclick of notebook card i: openNotebookModal, with loadNotebookInModal
\* rendering the notebook registered.  renderFullNotebook is called outside
\* the try of loadNotebookInModal: when it throws, the handler ends there,
\* after the navigation state and the title were assigned.
OpenRendered(i) ==
  /\ gallery[i].cardId \in DOMAIN cardMap
  /\ navigationCardIds' = getAllCardIds(gallery)
  /\ currentCardIndex' = IndexOf(getAllCardIds(gallery), gallery[i].cardId)
  /\ viewerTitle' = cardMap[gallery[i].cardId].filename
  /\ IF FullThrown(renderFullNotebook(cardMap[gallery[i].cardId].raw))
     THEN /\ notices' = notices \cup {"error"}
          /\ UNCHANGED <<viewerBody, prevDisabled, nextDisabled, modalOpen>>
     ELSE /\ viewerBody' = renderFullNotebook(cardMap[gallery[i].cardId].raw)
          /\ updateNavigationButtons(currentCardIndex', navigationCardIds')
          /\ modalOpen' = TRUE
          /\ UNCHANGED notices
  /\ UNCHANGED <<folderStructure, currentPath, showPyFiles, cardMap, gallery, shown,
                 breadcrumbs, listingShown, stale, tracked, readsOf, cardsOf>>

\* The listing of folder a after the load of a/w.ipynb, the read of its card
\* started.
InitRender ==
  /\ folderStructure = buildTree(<<5>>)
  /\ currentPath = <<"a">>
  /\ showPyFiles = FALSE
  /\ cardMap = NoMap
  /\ currentCardIndex = -1
  /\ navigationCardIds = <<>>
  /\ gallery = << [disconnect(FileCard(5)) EXCEPT !.inflight = 1, !.started = 1] >>
  /\ shown = Get(buildTree(<<5>>), "a")
  /\ breadcrumbs = <<"a">>
  /\ listingShown = TRUE
  /\ stale = [f \in FileIds |-> 0]
  /\ modalOpen = FALSE
  /\ prevDisabled = FALSE
  /\ nextDisabled = FALSE
  /\ notices = {}
  /\ viewerTitle = ""
  /\ viewerBody = 0
  /\ tracked = 0
  /\ readsOf = 0
  /\ cardsOf = 0

NextRender ==
  \/ \E i \in 1..Len(gallery), nb \in Notebooks : PreviewLoaded(i, nb)
  \/ \E i \in 1..Len(gallery) : OpenRendered(i)
  \/ NavigatePrevious
  \/ NavigateNext
  \/ \E route \in CloseRoutes : Close(route)

SpecRender == InitRender /\ [][NextRender]_vars

\* The files in the lists of the tree under node, the lists hung on a list
\* included.
RECURSIVE TreeFiles(_)
TreeFiles(node) ==
  {node.items[i] : i \in 1..Len(node.items)}
    \cup UNION {TreeFiles(node.kids[k]) : k \in DOMAIN node.kids}

\* How often file f is in a sequence of files.
Occurrences(files, f) == Cardinality({k \in 1..Len(files) : files[k] = f})

\* How often file f is in the files lists of the tree under node.
RECURSIVE CountInTree(_, _)
CountInTree(node, f) ==
  IF node.kind # "obj" THEN 0
  ELSE LET names == FolderNames(node)
           below == [k \in 1..Len(names) |-> CountInTree(Get(node, names[k]), f)]
       IN Occurrences(FilesOf(node), f) + SumOver(below, 1..Len(names))

\* ================================================================ properties

\* C1: while the viewer is open, the previous control is enabled exactly when
\* the cursor is above 0 and the next control exactly when the cursor is below
\* the last position of the navigation list, whatever was interleaved.
C1_ControlsMatchCursor ==
  modalOpen =>
    /\ prevDisabled = ~(currentCardIndex > 0)
    /\ nextDisabled = ~(currentCardIndex < Len(navigationCardIds) - 1)

\* C2: a step never wraps: the previous step at cursor 0 (or below) and the
\* next step at the last position (or beyond) leave the cursor where it is,
\* and any other step leaves it or moves it by exactly one in its direction.
C2_StepsByOneNoWrap ==
  [][ /\ NavigatePrevious =>
           /\ currentCardIndex' \in {currentCardIndex, currentCardIndex - 1}
           /\ currentCardIndex <= 0 => currentCardIndex' = currentCardIndex
      /\ NavigateNext =>
           /\ currentCardIndex' \in {currentCardIndex, currentCardIndex + 1}
           /\ currentCardIndex >= Len(navigationCardIds) - 1
                 => currentCardIndex' = currentCardIndex ]_vars

\* The viewer shows the second of two distinct entries, the first being
\* available behind it and nothing after it.
C2_AtLastOfTwo ==
  /\ modalOpen
  /\ Len(navigationCardIds) = 2
  /\ navigationCardIds[1] # navigationCardIds[2]
  /\ currentCardIndex = 1
  /\ ~prevDisabled
  /\ nextDisabled

C4_OnlyOpenAndCloseWriteList ==
  [][ navigationCardIds' # navigationCardIds =>
        \/ \E i \in 1..Len(gallery) : OpenCard(i)
        \/ \E route \in CloseRoutes : Close(route) ]_vars

\* The viewer is open and the listing is no longer the one it was opened from.
C4_ListOutlivesListing ==
  /\ modalOpen
  /\ navigationCardIds # <<>>
  /\ navigationCardIds # getAllCardIds(gallery)

\* C5: opening an id that is no key of the registry changes nothing.
C5_StaleOpenIsNoOp ==
  [][ \A id \in Ids : OpenStaleId(id) => UNCHANGED vars ]_vars

\* The viewer is open and an id of its navigation list is no longer a key of
\* the registry, while the listing has a registered card.
C5_StaleIdAtHand ==
  /\ modalOpen
  /\ \E k \in 1..Len(navigationCardIds) : navigationCardIds[k] \notin DOMAIN cardMap
  /\ getAllCardIds(gallery) # <<>>

\* C6: every way of closing the viewer sets the cursor to -1 and empties the
\* navigation list, and leaves the registry, the tree and the path alone.
C6_CloseResetsNavigation ==
  [][ \A route \in CloseRoutes :
        Close(route) =>
          /\ currentCardIndex' = -1
          /\ navigationCardIds' = <<>>
          /\ UNCHANGED <<cardMap, folderStructure, currentPath>> ]_vars

\* The viewer was open and is closed, in a sub-folder, with a registry entry.
C6_ClosedAfterOpen ==
  /\ ~modalOpen
  /\ viewerTitle # ""
  /\ currentCardIndex = -1
  /\ navigationCardIds = <<>>
  /\ cardMap # NoMap
  /\ currentPath # <<>>

\* C7: no two cards of the listing carry the same id, and every registered
\* card's id is a key of the registry bound to the card's own file.
C7_IdsAreFresh ==
  \A i \in 1..Len(gallery) :
    gallery[i].cardId # NoId =>
      /\ \A j \in 1..Len(gallery) : j # i => gallery[j].cardId # gallery[i].cardId
      /\ gallery[i].cardId \in DOMAIN cardMap =>
            cardMap[gallery[i].cardId].raw = gallery[i].file

\* C8: a successful load leaves no entry in the registry.
C8_LoadEmptiesRegistry ==
  [][ \A files \in LoadInputs :
        (Load(files) /\ supportedFiles(files) # <<>>) => cardMap' = NoMap ]_vars

C12_CompletionAddsOneEntry ==
  [][ \A i \in 1..Len(gallery) :
        (ReadLoaded(i) /\ Parses(gallery[i].file)) =>
          /\ Cardinality(DOMAIN cardMap') = Cardinality(DOMAIN cardMap) + 1
          /\ \A id \in DOMAIN cardMap : cardMap'[id] = cardMap[id]
          /\ \A k \in 1..Len(gallery) : k # i => gallery'[k] = gallery[k] ]_vars
\* C13: in every state, walking the tree from the root by the segments of
\* currentPath finds a folder node at every step, and the listing shows that
\* node: it was rendered from it and has its cards.
C13_PathResolves ==
  /\ \A n \in 0..Len(currentPath) :
        Walk(folderStructure, SubSeq(currentPath, 1, n)).kind = "obj"
  /\ shown = Walk(folderStructure, currentPath)
  /\ LET cards == CardsOf(Walk(folderStructure, currentPath), showPyFiles)
     IN /\ Len(gallery) = Len(cards)
        /\ \A k \in 1..Len(cards) :
              gallery[k].kind = cards[k].kind /\ gallery[k].name = cards[k].name

\* The listing shows a folder two levels below the root, in a tree loaded
\* after entries of an earlier load were registered.
C13_DeepAfterReload ==
  /\ listingShown
  /\ Len(currentPath) = 2
  /\ gallery # <<>>
  /\ cardMap # NoMap
\* C14: a jump to breadcrumb i of a path that resolves, 0 <= i < Len(path),
\* leaves the first i + 1 segments of the path as the path, and the listing
\* shows the node these segments lead to.
C14_BreadcrumbKeepsPrefix ==
  [][ \A i \in 0..(Len(currentPath) - 1) :
        (JumpToBreadcrumb(i) /\ Walk(folderStructure, currentPath).kind = "obj") =>
          /\ Len(currentPath') = i + 1
          /\ currentPath' = SubSeq(currentPath, 1, i + 1)
          /\ shown' = Walk(folderStructure, SubSeq(currentPath, 1, i + 1))
          /\ UNCHANGED folderStructure ]_vars

\* The listing shows the first folder of the path while a read started two
\* levels down is still in flight.
C14_BackFromDeeper ==
  /\ listingShown
  /\ currentPath = <<"a">>
  /\ shown = Walk(folderStructure, <<"a">>)
  /\ stale[1] > 0
\* C15: a jump to breadcrumb i of a path of which one of the first i + 1
\* segments does not resolve in the tree empties the path, shows the root and
\* records a warning; the tree and the registry stay as they are.
C15_UnresolvedJumpFallsBack ==
  [][ \A i \in 0..(Len(currentPath) - 1) :
        ( /\ JumpToBreadcrumb(i)
          /\ \E n \in 1..(i + 1) :
                Walk(folderStructure, SubSeq(currentPath, 1, n)).kind # "obj" ) =>
          /\ currentPath' = <<>>
          /\ shown' = folderStructure
          /\ breadcrumbs' = <<>>
          /\ gallery' = CardsOf(folderStructure, showPyFiles)
          /\ "warn" \in notices'
          /\ UNCHANGED <<folderStructure, cardMap>> ]_vars

\* A warning was recorded and the root of a tree with a folder is shown, the
\* registry still holding its entry.
C15_FellBackToRoot ==
  /\ "warn" \in notices
  /\ currentPath = <<>>
  /\ shown = folderStructure
  /\ gallery # <<>>
  /\ cardMap # NoMap
\* C16: a folder card is entered only under a name that is a key of the node
\* shown, not the key 'files', bound to a folder node; entering it appends
\* the name to the path and shows that child, and leaves the tree and the
\* registry as they are.
C16_EnterAppendsChild ==
  [][ \A i \in 1..Len(gallery) :
        EnterFolder(i) =>
          LET name == gallery[i].name
              node == Walk(folderStructure, currentPath)
          IN /\ name # "files"
             /\ node.kind = "obj"
             /\ Has(node, name)
             /\ Get(node, name).kind = "obj"
             /\ currentPath' = Append(currentPath, name)
             /\ shown' = Get(node, name)
             /\ UNCHANGED <<folderStructure, cardMap>> ]_vars

\* Folder a, then its folder b, were entered: the listing shows the notebook
\* in a/b, beside a registry that is not empty.
C16_EnteredTwice ==
  /\ currentPath = <<"a", "b">>
  /\ shown = Get(Get(folderStructure, "a"), "b")
  /\ Len(gallery) = 1
  /\ gallery[1].file = 1
  /\ cardMap # NoMap
\* C17: a clear, in whatever state it is invoked, leaves the tree empty, the
\* path empty, the registry empty, the navigation list empty and no cursor.
C17_ClearDiscardsAll ==
  [][ Clear =>
        /\ folderStructure' = EmptyObj
        /\ currentPath' = <<>>
        /\ cardMap' = NoMap
        /\ navigationCardIds' = <<>>
        /\ currentCardIndex' = -1 ]_vars
\* C18: a load none of whose files passes the filter raises the alert and
\* leaves the tree, the path, the registry, the navigation list, the cursor
\* and the listing exactly as they were.
C18_EmptyLoadChangesNothing ==
  [][ \A files \in ListingInputs :
        (Load(files) /\ supportedFiles(files) = <<>>) =>
          /\ "alert" \in notices'
          /\ UNCHANGED <<folderStructure, currentPath, cardMap, navigationCardIds,
                         currentCardIndex, gallery, shown, breadcrumbs, listingShown,
                         stale>> ]_vars

\* The alert was raised, and a sub-folder is listed with a card registered.
C18_AlertBesideSession ==
  /\ "alert" \in notices
  /\ listingShown
  /\ currentPath # <<>>
  /\ getAllCardIds(gallery) # <<>>
  /\ cardMap # NoMap
\* C19: a successful load replaces the tree by the tree built from the
\* filtered files of this load alone, each of them in it as often as in the
\* load and no other file in it, empties the path and shows the root.
C19_LoadRebuildsTree ==
  [][ \A files \in ListingInputs :
        (Load(files) /\ supportedFiles(files) # <<>>) =>
          /\ folderStructure' = buildTree(supportedFiles(files))
          /\ \A f \in FileIds :
                CountInTree(folderStructure', f) = Occurrences(supportedFiles(files), f)
          /\ currentPath' = <<>>
          /\ shown' = folderStructure'
          /\ gallery' = CardsOf(folderStructure', showPyFiles) ]_vars

\* The tree holds the one notebook of the second folder and nothing of the
\* first, whose files have entries in the registry.
C19_SecondLoadAlone ==
  /\ listingShown
  /\ folderStructure = buildTree(<<1>>)
  /\ \A f \in FileIds \ {1} : CountInTree(folderStructure, f) = 0
  /\ cardMap # NoMap
\* C20: for every list of files loaded, the tree built holds every file of
\* the list: walking it by the segments of the file's path but the last leads
\* to a node whose files list has the file as often as the list has it.  The
\* list a/b/x.ipynb, a/y.py, z.py gives a root with the one folder a and the
\* one file z.py, a with the one folder b and the one file y.py, and b with
\* the one file x.ipynb.
C20_TreeHoldsEveryFile ==
  [][ \A files \in TreeInputs :
        (Load(files) /\ supportedFiles(files) # <<>>) =>
          LET input == supportedFiles(files)
              tree == folderStructure'
          IN /\ \A k \in 1..Len(input) :
                   LET parts == SplitParts(normalizeFilePath(FileOf(input[k])))
                       node == Walk(tree, SubSeq(parts, 1, Len(parts) - 1))
                   IN /\ node.kind # "throw"
                      /\ Occurrences(FilesOf(node), input[k]) = Occurrences(input, input[k])
             /\ files = <<1, 2, 3>> =>
                   /\ FolderNames(tree) = <<"a">>
                   /\ FilesOf(tree) = <<3>>
                   /\ FolderNames(Get(tree, "a")) = <<"b">>
                   /\ FilesOf(Get(tree, "a")) = <<2>>
                   /\ FolderNames(Get(Get(tree, "a"), "b")) = <<>>
                   /\ FilesOf(Get(Get(tree, "a"), "b")) = <<1>> ]_vars

\* C21: a folder named files is an ordinary subfolder.  For every list of
\* files loaded, the build ends without an error, and every file of the list
\* is in the files list of the node its path leads to, where that node is a
\* folder (an object of the tree, not the files list of its parent) and its
\* files list is an array.
C21_FilesFolderIsOrdinary ==
  [][ \A files \in TreeInputs :
        (Load(files) /\ supportedFiles(files) # <<>>) =>
          LET input == supportedFiles(files)
              tree == folderStructure'
          IN /\ "error" \notin notices'
             /\ \A k \in 1..Len(input) :
                   LET parts == SplitParts(normalizeFilePath(FileOf(input[k])))
                       node == Walk(tree, SubSeq(parts, 1, Len(parts) - 1))
                   IN /\ node.kind = "obj"
                      /\ Has(node, "files")
                      /\ Get(node, "files").kind = "arr"
                      /\ \E j \in 1..Len(Get(node, "files").items) :
                            Get(node, "files").items[j] = input[k] ]_vars

\* C22: in every files list of a tree built by a load, the files are in the
\* order of the list loaded: the files list of the node a file's path leads to
\* is the list loaded, cut down to the files whose path leads to that node.
C22_FilesKeepInputOrder ==
  [][ \A files \in BuildInputs :
        (Load(files) /\ supportedFiles(files) # <<>> /\ "error" \notin notices') =>
          LET input == supportedFiles(files)
              tree == folderStructure'
              folderOf(f) == LET parts == SplitParts(normalizeFilePath(FileOf(f)))
                             IN SubSeq(parts, 1, Len(parts) - 1)
          IN \A k \in 1..Len(input) :
               LET node == Walk(tree, folderOf(input[k]))
               IN /\ node.kind # "throw"
                  /\ Has(node, "files")
                  /\ Get(node, "files").items =
                       SelectSeq(input, LAMBDA f : folderOf(f) = folderOf(input[k])) ]_vars

\* y.py was loaded before w.ipynb, and follows it in no sorted order of names.
C22_LaterNameFirst ==
  /\ Has(folderStructure, "a")
  /\ FilesOf(Get(folderStructure, "a")) = <<2, 5>>

\* C23: after any load, by the folder input or by a drop, no file whose name
\* ends in neither .ipynb nor .py, and no file whose name begins with ._, is
\* in any files list of the tree.
C23_TreeHoldsSupportedOnly ==
  \A f \in TreeFiles(folderStructure) :
    /\ EndsWith(FileOf(f).name, ".ipynb") \/ EndsWith(FileOf(f).name, ".py")
    /\ ~StartsWith(FileOf(f).name, "._")

\* The folder d was dropped with ._m.py, n.txt, z.py and the folder ._d in it.
C23_DroppedBesideMetadata ==
  /\ Has(folderStructure, "d")
  /\ FilesOf(Get(folderStructure, "d")) = <<3>>

\* C24 as amended: the path of a file is derived from the picker's relative
\* path when the file has one, else from the traversal's path when it has
\* one, else it is the bare name.  Every load builds the tree it would build
\* if each file with a picker's hint had no other hint, and a file without
\* hints is in the files list of the root.
C24_PickerHintFirst ==
  [][ LET only(file) == IF file.webkitRelativePath # <<>>
                        THEN [file EXCEPT !.fullPath = <<>>] ELSE file
          holds(input, fileAt) ==
            /\ folderStructure' = BuildOver([id \in AllFileIds |-> only(fileAt[id])],
                                            EmptyObj, input)
            /\ \A k \in 1..Len(input) :
                 (fileAt[input[k]].webkitRelativePath = <<>> /\ fileAt[input[k]].fullPath = <<>>)
                   => \E j \in 1..Len(FilesOf(folderStructure')) :
                         FilesOf(folderStructure')[j] = input[k]
      IN /\ \A files \in PathInputs :
              (Load(files) /\ listingShown') => holds(supportedFiles(files), Files)
         /\ \A items \in PathDrops :
              (Drop(items) /\ listingShown') =>
                LET acc == traverseItems(items, [fileList |-> <<>>, fileAt |-> Files])
                IN holds(supportedFiles(acc.fileList), acc.fileAt) ]_vars

\* p.ipynb with the picker's hint a/p.ipynb and the traversal's hint
\* t/p.ipynb was loaded, and is in a.
C24_BothHintsLoaded ==
  /\ Has(folderStructure, "a")
  /\ FilesOf(Get(folderStructure, "a")) = <<10>>

\* C24 as stated: the traversal's path first, then the picker's relative
\* path, then the bare name.
C24_TraversalHintFirst ==
  [][ LET only(file) == IF file.fullPath # <<>>
                        THEN [file EXCEPT !.webkitRelativePath = <<>>] ELSE file
          holds(input, fileAt) ==
            /\ folderStructure' = BuildOver([id \in AllFileIds |-> only(fileAt[id])],
                                            EmptyObj, input)
            /\ \A k \in 1..Len(input) :
                 (fileAt[input[k]].webkitRelativePath = <<>> /\ fileAt[input[k]].fullPath = <<>>)
                   => \E j \in 1..Len(FilesOf(folderStructure')) :
                         FilesOf(folderStructure')[j] = input[k]
      IN /\ \A files \in PathInputs :
              (Load(files) /\ listingShown') => holds(supportedFiles(files), Files)
         /\ \A items \in PathDrops :
              (Drop(items) /\ listingShown') =>
                LET acc == traverseItems(items, [fileList |-> <<>>, fileAt |-> Files])
                IN holds(supportedFiles(acc.fileList), acc.fileAt) ]_vars

\* C25: for every file loaded, whatever runs of backslashes and slashes
\* separate the segments of its hint, the normalized path has no backslash
\* and the segments the file is placed by have no empty one among them.
C25_NoBackslashNoEmptySegment ==
  [][ LET holds(input, fileAt) ==
            \A k \in 1..Len(input) :
              LET normalized == normalizeFilePath(fileAt[input[k]])
                  parts == SplitParts(normalized)
              IN /\ \A i \in 1..Len(normalized) : normalized[i] # BS
                 /\ \A i \in 1..Len(parts) : parts[i] # ""
      IN /\ \A files \in PathInputs :
              (Load(files) /\ listingShown') => holds(supportedFiles(files), Files)
         /\ \A items \in PathDrops :
              (Drop(items) /\ listingShown') =>
                LET acc == traverseItems(items, [fileList |-> <<>>, fileAt |-> Files])
                IN holds(supportedFiles(acc.fileList), acc.fileAt) ]_vars

\* p.ipynb was loaded with the hint a, backslash, slash, backslash, p.ipynb.
C25_MixedRunLoaded ==
  /\ Has(folderStructure, "a")
  /\ \E f \in PathFileIds :
       /\ FileOf(f).webkitRelativePath = <<"a", BS, "/", BS, "p.ipynb">>
       /\ FilesOf(Get(folderStructure, "a")) = <<f>>

\* C26: the path of every file loaded has at least one segment, and a file
\* whose hint is separators only has its bare name for path: it is in the
\* files list of the root.
C26_SeparatorHintIsBareName ==
  [][ \A files \in PathInputs :
        (Load(files) /\ listingShown') =>
          LET input == supportedFiles(files)
          IN \A k \in 1..Len(input) :
               LET file == FileOf(input[k])
                   hint == IF file.webkitRelativePath # <<>>
                           THEN file.webkitRelativePath ELSE file.fullPath
               IN /\ SplitParts(normalizeFilePath(file)) # <<>>
                  /\ (hint # <<>> /\ \A i \in 1..Len(hint) : hint[i] \in {"/", BS}) =>
                       /\ normalizeFilePath(file) = <<file.name>>
                       /\ \E j \in 1..Len(FilesOf(folderStructure')) :
                            FilesOf(folderStructure')[j] = input[k] ]_vars

\* C27: normalization is idempotent.  For every file loaded, the path
\* normalizeFilePath gives is the path it gives again for a file with that
\* path as its hint, and buildTree, given the files as the build left them
\* (fullPath set to the normalized path), builds the same tree again.
C27_NormalizationIsIdempotent ==
  [][ LET holds(input, fileAt) ==
            /\ \A k \in 1..Len(input) :
                 LET file == fileAt[input[k]]
                     normalized == normalizeFilePath(file)
                 IN /\ normalizeFilePath([file EXCEPT !.webkitRelativePath = <<>>,
                                                      !.fullPath = normalized]) = normalized
                    /\ normalizeFilePath([file EXCEPT !.webkitRelativePath = normalized,
                                                      !.fullPath = <<>>]) = normalized
            /\ BuildOver([id \in AllFileIds |-> normalizedFile(fileAt[id])],
                         EmptyObj, input) = folderStructure'
      IN /\ \A files \in PathInputs :
              (Load(files) /\ listingShown') => holds(supportedFiles(files), Files)
         /\ \A items \in PathDrops :
              (Drop(items) /\ listingShown') =>
                LET acc == traverseItems(items, [fileList |-> <<>>, fileAt |-> Files])
                IN holds(supportedFiles(acc.fileList), acc.fileAt) ]_vars

\* p.ipynb was loaded with the fullPath a, backslash, b, backslash, p.ipynb.
C27_BackslashFullPathLoaded ==
  /\ Has(folderStructure, "a")
  /\ Has(Get(folderStructure, "a"), "b")
  /\ \E f \in PathFileIds :
       /\ FileOf(f).fullPath = <<"a", BS, "b", BS, "p.ipynb">>
       /\ FilesOf(Get(Get(folderStructure, "a"), "b")) = <<f>>

\* C28: where a file is placed depends on the segments of its hint only, not
\* on the separators between them: every file loaded whose hint has segments
\* is in the files list of the node the segments but the last lead to, be the
\* separators slashes, backslashes, doubled backslashes or a mixture, and be
\* the hint the picker's or the traversal's.  Two files with the same
\* segments are so in the same list.
C28_PlaceIgnoresSeparators ==
  [][ \A files \in PathInputs :
        (Load(files) /\ listingShown') =>
          LET input == supportedFiles(files)
              segments(f) ==
                LET file == FileOf(f)
                    hint == IF file.webkitRelativePath # <<>>
                            THEN file.webkitRelativePath ELSE file.fullPath
                IN SelectSeq(hint, LAMBDA t : t \notin {"/", BS})
              placed(f) ==
                LET node == Walk(folderStructure', SubSeq(segments(f), 1, Len(segments(f)) - 1))
                IN \E j \in 1..Len(FilesOf(node)) : FilesOf(node)[j] = f
          IN /\ \A k \in 1..Len(input) :
                  segments(input[k]) # <<>> => placed(input[k])
             /\ \A k, l \in 1..Len(input) :
                  (segments(input[k]) # <<>> /\ segments(input[k]) = segments(input[l])) =>
                     LET node == Walk(folderStructure',
                                      SubSeq(segments(input[k]), 1, Len(segments(input[k])) - 1))
                     IN FilesOf(node) = SelectSeq(input,
                                          LAMBDA f : segments(f) = segments(input[k])) ]_vars

\* p.ipynb of a/p.ipynb (the picker's hint) and p.ipynb of a, two
\* backslashes, p.ipynb (a fullPath) are in the same list.
C28_TwoStylesInOneList ==
  /\ Has(folderStructure, "a")
  /\ \E f \in PathFileIds :
       /\ FileOf(f).fullPath = <<"a", BS, BS, "p.ipynb">>
       /\ FilesOf(Get(folderStructure, "a")) = <<9, f>>

\* C29: the preview of a notebook is the rendering of its first min(3, k)
\* cells of type markdown or code, in document order, k being the number of
\* such cells: a cell of another type is not rendered and does not count.  (A
\* markdown cell with an empty source is rendered as the empty string.)  For
\* the cells markdown, raw, code, code, markdown the preview is the markdown
\* and the two code cells.
C29_PreviewIsFirstThree ==
  \A i \in 1..Len(gallery) :
    gallery[i].cardId \in DOMAIN cardMap =>
      LET nb == cardMap[gallery[i].cardId].raw
          cells == IF "cells" \in DOMAIN nb THEN nb.cells ELSE <<>>
          counted == SelectSeq(cells, LAMBDA c : c.cell_type \in {"markdown", "code"})
          first == SubSeq(counted, 1, IF Len(counted) < 3 THEN Len(counted) ELSE 3)
          visible == SelectSeq(first, LAMBDA c : ~(c.cell_type = "markdown"
                                                    /\ joined(c.source) = ""))
          html == gallery[i].content
      IN /\ Len(html) = Len(visible)
         /\ \A k \in 1..Len(visible) :
              html[k] = IF visible[k].cell_type = "markdown"
                        THEN [tag |-> "p", text |-> joined(visible[k].source)]
                        ELSE [tag |-> "pre-code",
                              text |-> escapeHtml(trim(joined(visible[k].source)))]
         /\ cells = << [cell_type |-> "markdown", source |-> JStr("m")],
                       [cell_type |-> "raw", source |-> JStr("r")],
                       [cell_type |-> "code", source |-> JStr(" c ")],
                       [cell_type |-> "code", source |-> JStr(" c ")],
                       [cell_type |-> "markdown", source |-> JStr("m")] >>
              => html = << [tag |-> "p", text |-> "m"],
                           [tag |-> "pre-code", text |-> "c"],
                           [tag |-> "pre-code", text |-> "c"] >>

\* The preview of the notebook with the cells markdown, raw, code, code,
\* markdown was rendered.
C29_RawCellInTheMiddle ==
  \E i \in 1..Len(gallery) :
    /\ gallery[i].cardId \in DOMAIN cardMap
    /\ "cells" \in DOMAIN cardMap[gallery[i].cardId].raw
    /\ cardMap[gallery[i].cardId].raw.cells =
         << [cell_type |-> "markdown", source |-> JStr("m")],
            [cell_type |-> "raw", source |-> JStr("r")],
            [cell_type |-> "code", source |-> JStr(" c ")],
            [cell_type |-> "code", source |-> JStr(" c ")],
            [cell_type |-> "markdown", source |-> JStr("m")] >>
    /\ Len(gallery[i].content) = 3

\* C30 as amended: an image takes precedence over the text of the same
\* output.  The full view renders the outputs of a code cell one by one, in
\* the order of the list: an output with an image payload as that image and
\* without its plain text, an output without one as its text (the echo of a
\* figure excepted).  For a plain-text output and an image output, in either
\* order, both are rendered.
C30_ImageFirstWithinOneOutput ==
  modalOpen =>
    LET nb == cardMap[navigationCardIds[currentCardIndex + 1]].raw
        cells == IF "cells" \in DOMAIN nb THEN nb.cells ELSE <<>>
        image(o) == \E mime \in {"image/png", "image/jpeg", "image/svg+xml"} :
                      "data" \in DOMAIN o /\ mime \in DOMAIN o.data
        text(o) == IF "data" \in DOMAIN o /\ "text/plain" \in DOMAIN o.data
                   THEN joined(o.data["text/plain"]) \notin
                          {"<Figure size 1x1>", "<Figure size 640x480 with 1 Axes>",
                           "Figure(1x1)", "Figure(640x480)"}
                   ELSE o.output_type = "stream"
        tags(body) == [j \in 1..Len(body) |-> body[j].tag]
    IN \A k \in 1..Len(cells) :
         (cells[k].cell_type = "code" /\ "outputs" \in DOMAIN cells[k]) =>
           LET rendered == SelectSeq(cells[k].outputs, LAMBDA o : image(o) \/ text(o))
               body == viewerBody[k].body
           IN /\ Len(body) = 1 + Len(rendered)
              /\ \A j \in 1..Len(rendered) :
                   body[j + 1].tag = IF image(rendered[j]) THEN "img" ELSE "out"
              /\ cells[k].outputs =
                     << [output_type |-> "execute_result", data |-> ("text/plain" :> JStr("42"))],
                        [output_type |-> "display_data", data |-> ("image/png" :> JStr("AAAA"))] >>
                   => body = << CodeBlock("cd"), Out("42"), Img("image/png", "AAAA") >>
              /\ cells[k].outputs =
                     << [output_type |-> "display_data", data |-> ("image/png" :> JStr("AAAA"))],
                        [output_type |-> "execute_result", data |-> ("text/plain" :> JStr("42"))] >>
                   => body = << CodeBlock("cd"), Img("image/png", "AAAA"), Out("42") >>

\* The viewer shows a code cell whose outputs are the text 42 and then an
\* image.
C30_TextThenImageShown ==
  /\ modalOpen
  /\ Len(viewerBody) = 1
  /\ viewerBody[1].body = << CodeBlock("cd"), Out("42"), Img("image/png", "AAAA") >>

\* C30 as stated: for a code cell whose outputs are a plain-text output and
\* an image output, in either order, the full view renders the image and
\* does not render the plain text.
C30_ImageSuppressesText ==
  modalOpen =>
    LET nb == cardMap[navigationCardIds[currentCardIndex + 1]].raw
        cells == IF "cells" \in DOMAIN nb THEN nb.cells ELSE <<>>
        image(o) == "data" \in DOMAIN o /\ DOMAIN o.data = {"image/png"}
        text(o) == /\ "data" \in DOMAIN o
                   /\ DOMAIN o.data = {"text/plain"}
                   /\ joined(o.data["text/plain"]) = "42"
    IN \A k \in 1..Len(cells) :
         (/\ cells[k].cell_type = "code"
          /\ "outputs" \in DOMAIN cells[k]
          /\ Len(cells[k].outputs) = 2
          /\ \/ text(cells[k].outputs[1]) /\ image(cells[k].outputs[2])
             \/ image(cells[k].outputs[1]) /\ text(cells[k].outputs[2])) =>
           LET body == viewerBody[k].body
           IN /\ \E j \in 1..Len(body) : body[j].tag = "img"
              /\ \A j \in 1..Len(body) : body[j].tag # "out"

\* C31: in the full view every output of a code cell is rendered as at most
\* one element, that of the highest-ranked payload it carries in the order
\* PNG image, JPEG image, SVG image, plain text, stream text (the plain text
\* that echoes a figure as nothing); an output carrying none of them renders
\* nothing; and the elements follow the code block in the order of the
\* outputs.
C31_HighestRankedPayloadOnly ==
  modalOpen =>
    LET nb == cardMap[navigationCardIds[currentCardIndex + 1]].raw
        cells == IF "cells" \in DOMAIN nb THEN nb.cells ELSE <<>>
        ranks == <<"image/png", "image/jpeg", "image/svg+xml", "text/plain", "stream">>
        carries(o, r) ==
          IF ranks[r] = "stream"
          THEN o.output_type = "stream" /\ "text" \in DOMAIN o /\ o.text # JStr("")
          ELSE "data" \in DOMAIN o /\ ranks[r] \in DOMAIN o.data
                 /\ o.data[ranks[r]] # JStr("")
        carried(o) == {r \in 1..5 : carries(o, r)}
        top(o) == CHOOSE r \in carried(o) : \A q \in carried(o) : r <= q
        figure(text) == text \in {"<Figure size 1x1>", "<Figure size 640x480 with 1 Axes>",
                                  "Figure(1x1)", "Figure(640x480)"}
        element(o) ==
          IF carried(o) = {} THEN <<>>
          ELSE IF top(o) <= 3
          THEN << [tag |-> "img", mime |-> ranks[top(o)],
                   data |-> joined(o.data[ranks[top(o)]])] >>
          ELSE IF top(o) = 4
          THEN IF figure(joined(o.data["text/plain"])) THEN <<>>
               ELSE << [tag |-> "out", text |-> escapeHtml(joined(o.data["text/plain"]))] >>
          ELSE << [tag |-> "out", text |-> escapeHtml(joined(o.text))] >>
    IN \A k \in 1..Len(cells) :
         (cells[k].cell_type = "code" /\ "outputs" \in DOMAIN cells[k]) =>
           LET outputs == cells[k].outputs
               body == viewerBody[k].body
               before(j) == Cardinality({i \in 1..(j - 1) : element(outputs[i]) # <<>>})
           IN /\ Len(body) = 1 + before(Len(outputs) + 1)
              /\ \A j \in 1..Len(outputs) :
                   element(outputs[j]) # <<>> =>
                     body[2 + before(j)] = element(outputs[j])[1]

\* The viewer shows the code cell whose one output carries all five payloads,
\* rendered as the PNG image alone.
C31_AllFivePayloadsShown ==
  /\ modalOpen
  /\ Len(viewerBody) = 1
  /\ LET nb == cardMap[navigationCardIds[currentCardIndex + 1]].raw
     IN /\ "cells" \in DOMAIN nb
        /\ Len(nb.cells) = 1
        /\ "outputs" \in DOMAIN nb.cells[1]
        /\ Len(nb.cells[1].outputs) = 1
        /\ nb.cells[1].outputs[1].output_type = "stream"
        /\ "data" \in DOMAIN nb.cells[1].outputs[1]
        /\ DOMAIN nb.cells[1].outputs[1].data =
             {"image/png", "image/jpeg", "image/svg+xml", "text/plain"}
  /\ viewerBody[1].body = << CodeBlock("cd"), Img("image/png", "AAAA") >>

\* C32: a plain text that contains <Figure size or Figure( is never rendered
\* as text output: no text element of the full view holds such a text, and a
\* code cell all of whose outputs have such a text as their highest-ranked
\* payload shows its code block and nothing else, also when the text is a
\* list of line fragments and when the output carries stream text too.
C32_FigureTextRendersNothing ==
  modalOpen =>
    LET nb == cardMap[navigationCardIds[currentCardIndex + 1]].raw
        cells == IF "cells" \in DOMAIN nb THEN nb.cells ELSE <<>>
        figures == {"<Figure size 1x1>", "<Figure size 640x480 with 1 Axes>",
                    "Figure(1x1)", "Figure(640x480)"}
        echo(o) == /\ "data" \in DOMAIN o
                   /\ DOMAIN o.data = {"text/plain"}
                   /\ joined(o.data["text/plain"]) \in figures
    IN \A k \in 1..Len(cells) :
         /\ \A j \in 1..Len(viewerBody[k].body) :
              viewerBody[k].body[j].tag = "out" =>
                viewerBody[k].body[j].text \notin figures \cup {escapeHtml(t) : t \in figures}
         /\ (/\ cells[k].cell_type = "code"
             /\ "outputs" \in DOMAIN cells[k]
             /\ \A j \in 1..Len(cells[k].outputs) : echo(cells[k].outputs[j]))
              => Len(viewerBody[k].body) = 1

\* The viewer shows the code cell whose one output is a stream output that
\* carries the plain text <Figure size 640x480 with 1 Axes> as well.
C32_FigureWithStreamTextShown ==
  /\ modalOpen
  /\ Len(viewerBody) = 1
  /\ LET nb == cardMap[navigationCardIds[currentCardIndex + 1]].raw
     IN /\ "cells" \in DOMAIN nb
        /\ Len(nb.cells) = 1
        /\ "outputs" \in DOMAIN nb.cells[1]
        /\ nb.cells[1].outputs =
             << [output_type |-> "stream", text |-> JStr("s"),
                 data |-> ("text/plain" :> JStr("<Figure size 640x480 with 1 Axes>"))] >>
  /\ viewerBody[1].body = << CodeBlock("cd") >>

\* C33: every user-supplied text is escaped before it is inserted into the
\* rendered output: in the preview of a card and in the full view, no text of
\* a paragraph, a code block or an output, no image payload and no cell type
\* inserted holds one of the characters & < > " ' raw.
C33_NoRawCharacterInMarkup ==
  LET raw(text) == \E k \in 1..Len(Chars(text)) : Chars(text)[k] \in {"&", "<", ">", "\"", "'"}
      clean(e) == IF e.tag = "img" THEN ~raw(e.data) ELSE ~raw(e.text)
  IN /\ \A i \in 1..Len(gallery) :
          gallery[i].cardId \in DOMAIN cardMap =>
            \A j \in 1..Len(gallery[i].content) : clean(gallery[i].content[j])
     /\ modalOpen =>
          \A k \in 1..Len(viewerBody) :
            /\ ~raw(viewerBody[k].class)
            /\ \A j \in 1..Len(viewerBody[k].body) : clean(viewerBody[k].body[j])

\* C34: a notebook whose text does not parse is contained at its card.  Its
\* card never holds a preview or an id, the registry and the navigation list
\* never hold an entry for it, and the completion of its read changes the
\* content of that card to the error placeholder and nothing else: not the
\* other cards, the tree, the current path, the registry or the viewer.
C34_ParseErrorStaysAtItsCard ==
  [][ LET bad(f) == FileOf(f).text = "badjson" /\ ~EndsWith(FileOf(f).name, ".py")
      IN /\ \A i \in 1..Len(gallery') :
              (gallery'[i].kind = "file" /\ bad(gallery'[i].file)) =>
                /\ gallery'[i].cardId = NoId
                /\ gallery'[i].content \in {"empty", "error"}
         /\ \A id \in DOMAIN cardMap' : ~bad(cardMap'[id].raw)
         /\ \A k \in 1..Len(navigationCardIds') :
              /\ navigationCardIds'[k] \in DOMAIN cardMap'
              /\ ~bad(cardMap'[navigationCardIds'[k]].raw)
         /\ \A i \in 1..Len(gallery) :
              (gallery[i].kind = "file" /\ bad(gallery[i].file) /\ ReadLoaded(i)) =>
                /\ gallery' = [gallery EXCEPT ![i] =
                       [@ EXCEPT !.inflight = @ - 1, !.content = "error"]]
                /\ UNCHANGED <<folderStructure, currentPath, cardMap, notices>>
                /\ UNCHANGED viewerVars ]_vars

\* The card of the notebook that does not parse shows the error placeholder
\* beside the registered cards of the script and of the other notebook, and
\* the viewer is open on one of the two.
C34_ErrorCardBesideRegisteredCards ==
  /\ Len(gallery) = 3
  /\ gallery[1].file = -1
  /\ gallery[1].content = "error"
  /\ gallery[2].cardId \in DOMAIN cardMap
  /\ gallery[3].cardId \in DOMAIN cardMap
  /\ gallery[2].cardId # gallery[3].cardId
  /\ modalOpen
  /\ Len(navigationCardIds) = 2

\* C35: when the read of a file fails, its card is left without content and
\* without an id, nothing is reported, and the other cards, the tree, the
\* current path, the registry and the viewer are unchanged.
C35_FailedReadLeavesCardEmpty ==
  [][ \A i \in 1..Len(gallery) :
        (gallery[i].kind = "file" /\ ReadFailed(i)) =>
          /\ Len(gallery') = Len(gallery)
          /\ gallery'[i].content = "empty"
          /\ gallery'[i].cardId = NoId
          /\ \A j \in 1..Len(gallery) : j # i => gallery'[j] = gallery[j]
          /\ UNCHANGED <<folderStructure, currentPath, cardMap, notices>>
          /\ UNCHANGED viewerVars ]_vars

\* The read of the second card has failed, with the third card registered
\* and shown in the viewer: the second card is observed no longer, has no
\* read in flight and no content.
C35_FailedBesideOpenCard ==
  /\ Len(gallery) = 3
  /\ gallery[2].started = 1
  /\ gallery[2].inflight = 0
  /\ gallery[2].content = "empty"
  /\ gallery[2].cardId = NoId
  /\ gallery[3].cardId \in DOMAIN cardMap
  /\ modalOpen
  /\ navigationCardIds = <<gallery[3].cardId>>

\* C36: no content of a file makes a handler end with an uncaught error: a
\* notebook that parses and lacks the expected structure shows at worst the
\* error placeholder on its card, and never reports an error from a handler.
C36_NoHandlerThrows ==
  "error" \notin notices

\* C37: with the show-scripts toggle off the listing holds no card of a .py
\* file, so that no read is started for a script and the navigation list
\* captured by an open holds no id whose registry entry is a script; and a
\* switch of the toggle renders the folder the current path resolves to
\* again and changes neither the tree nor the current path.
C37_NoScriptWhileToggleOff ==
  [][ /\ ~showPyFiles' => \A i \in 1..Len(gallery') : gallery'[i].ext # PY
      /\ ~showPyFiles =>
           \A i \in 1..Len(gallery) :
             (gallery[i].kind = "file" /\ Intersect(i, TRUE)) => gallery[i].ext # PY
      /\ (~showPyFiles /\ \E i \in 1..Len(gallery) : OpenCard(i)) =>
           \A k \in 1..Len(navigationCardIds') :
             navigationCardIds'[k] \in DOMAIN cardMap' =>
               cardMap'[navigationCardIds'[k]].type # PY
      /\ ToggleShowPy =>
           /\ folderStructure' = folderStructure
           /\ currentPath' = currentPath
           /\ gallery' = CardsOf(Walk(folderStructure, currentPath), showPyFiles')
           /\ breadcrumbs' = currentPath ]_vars

\* C38: the cursor is consistent with the viewer in every state.  While the
\* viewer is open the cursor is an index of the navigation list; while it is
\* closed the cursor is -1 and the navigation list is empty, and a step to
\* the previous or to the next item changes nothing.
C38_CursorFollowsViewer ==
  [][ /\ modalOpen' =>
           0 <= currentCardIndex' /\ currentCardIndex' < Len(navigationCardIds')
      /\ ~modalOpen' => currentCardIndex' = -1 /\ navigationCardIds' = <<>>
      /\ (~modalOpen /\ (NavigatePrevious \/ NavigateNext)) => UNCHANGED vars ]_vars

\* C39: in the open viewer the cursor never moves to an id that is missing
\* from the registry: whenever the cursor moves, the id it moves to is a key
\* of the registry and the title and the content shown are those of its
\* entry, and a step whose target id is no key of the registry leaves the
\* cursor and the display unchanged.
C39_CursorMovesToRegisteredIdOnly ==
  [][ /\ (modalOpen' /\ currentCardIndex' # currentCardIndex) =>
           /\ currentCardIndex' + 1 \in 1..Len(navigationCardIds')
           /\ navigationCardIds'[currentCardIndex' + 1] \in DOMAIN cardMap'
           /\ viewerTitle' = cardMap'[navigationCardIds'[currentCardIndex' + 1]].filename
           /\ viewerBody' = cardMap'[navigationCardIds'[currentCardIndex' + 1]].raw
      /\ (/\ modalOpen
           /\ NavigateNext
           /\ currentCardIndex + 2 \in 1..Len(navigationCardIds)
           /\ navigationCardIds[currentCardIndex + 2] \notin DOMAIN cardMap)
           => UNCHANGED <<currentCardIndex, viewerTitle, viewerBody>>
      /\ (/\ modalOpen
           /\ NavigatePrevious
           /\ currentCardIndex \in 1..Len(navigationCardIds)
           /\ navigationCardIds[currentCardIndex] \notin DOMAIN cardMap)
           => UNCHANGED <<currentCardIndex, viewerTitle, viewerBody>> ]_vars

====
